---- MODULE Spec2Model ----
(***************************************************************************)
(* Feedback-loop library (BaseLoop and its four concrete loops), the       *)
(* ClosedLoopDynamics state-vector integrator and ReproducibleRNG.         *)
(*                                                                         *)
(* Reals are fixed-point integers with Scale units per 1.0, so 0.7 is      *)
(* written 7000 and a product a*b is Mul(a, b).  Time steps are counted in *)
(* ticks of 0.1 time units (dt = 0.1 is 1 tick): the code's exponent       *)
(* dt * 10 is the tick count.  current_energy (0 .. 100) is kept in        *)
(* 1/Scale energy units, so current_energy / 100 at scale is               *)
(* current_energy \div 100.                                                *)
(***************************************************************************)
EXTENDS Integers, Sequences, FiniteSets, TLC

VARIABLES loop, last, steps, cld, twin, runs, entropy

vars == <<loop, last, steps, cld, twin, runs, entropy>>

\* what a call on the loop leaves alone, and what a call on the integrator does
notLoop == <<cld, twin, runs, entropy>>

notCld == <<loop, twin, runs, entropy>>

Scale == 10^4

\* ---------------------------------------------------------------- bounds
MaxSteps == 3

MaxCldSteps == 4

MaxDriverSteps == 2004

MaxReproSteps == 3

\* ------------------------------------------------------------ arithmetic
Min(a, b) == IF a <= b THEN a ELSE b

Max(a, b) == IF a >= b THEN a ELSE b

Clip(x, lo, hi) == IF x < lo THEN lo ELSE IF x > hi THEN hi ELSE x

Mul(a, b) == (a * b) \div Scale

RECURSIVE Pow(_, _)
Pow(b, n) ==
    IF n = 0 THEN Scale
    ELSE IF n < 0 THEN (Scale * Scale) \div Pow(b, -n)
    ELSE Mul(b, Pow(b, n - 1))

\* ------------------------------------------------------- loop parameters
Kinds == {"NegativeBiasLoop", "HyperarousalLoop", "ControlFailureLoop", "EnergyCollapseLoop"}

DefaultParameters(kind) ==
    CASE kind = "NegativeBiasLoop" ->
           [loop_gain |-> 500, loop_decay |-> 9800, loop_threshold |-> 3000,
            max_strength |-> 10000, min_strength |-> 0]
      [] kind = "HyperarousalLoop" ->
           [loop_gain |-> 600, loop_decay |-> 9700, loop_threshold |-> 4000,
            max_strength |-> 10000, min_strength |-> 0]
      [] kind = "ControlFailureLoop" ->
           [loop_gain |-> 500, loop_decay |-> 9800, loop_threshold |-> 3000,
            max_strength |-> 10000, min_strength |-> 0]
      [] kind = "EnergyCollapseLoop" ->
           [loop_gain |-> 400, loop_decay |-> 9900, loop_threshold |-> 2000,
            max_strength |-> 10000, min_strength |-> 0]

\* LoopParameters a caller passes in: a strong gain with the default clamp
\* bounds, and a narrowed strength interval (min_strength <= max_strength).
CustomParameters ==
    { [loop_gain |-> 4000, loop_decay |-> 9000, loop_threshold |-> 3000,
       max_strength |-> 10000, min_strength |-> 0],
      [loop_gain |-> 4000, loop_decay |-> 9000, loop_threshold |-> 3000,
       max_strength |-> 6000, min_strength |-> 2000] }

LoopState == [loop_strength |-> 0, activation_count |-> 0,
              last_activation_time |-> 0, cumulative_effect |-> 0]

\* ------------------------------------------------------- NegativeBiasLoop
NegativeBiasLoopState ==
    [negative_amplification |-> 10000, positive_dampening |-> 10000,
     memory_bias |-> 0, rumination_strength |-> 0, threat_sensitivity |-> 10000]

UpdateBiasFromStrength(sub, strength0) ==
    LET strength == Clip(strength0, 0, 10000)
    IN [sub EXCEPT !.negative_amplification = 10000 + Mul(strength, 15000),
                   !.positive_dampening = 10000 - Mul(strength, 7000),
                   !.threat_sensitivity = 10000 + Mul(strength, 10000),
                   !.memory_bias = Mul(strength, 8000)]

NewNegativeBiasLoop(initial_bias_strength) ==
    IF initial_bias_strength > 0
    THEN UpdateBiasFromStrength(NegativeBiasLoopState, initial_bias_strength)
    ELSE NegativeBiasLoopState

\* ------------------------------------------------------- HyperarousalLoop
HyperarousalLoopState ==
    [arousal_level |-> 0, sleep_quality |-> 10000,
     threat_vigilance |-> 10000, startle_response |-> 10000]

UpdateArousalFromStrength(sub, strength0) ==
    LET strength == Clip(strength0, 0, 10000)
    IN [sub EXCEPT !.arousal_level = strength,
                   !.sleep_quality = 10000 - Mul(strength, 8000),
                   !.threat_vigilance = 10000 + Mul(strength, 15000),
                   !.startle_response = 10000 + Mul(strength, 20000)]

NewHyperarousalLoop(initial_arousal) ==
    IF initial_arousal > 0
    THEN UpdateArousalFromStrength(HyperarousalLoopState, initial_arousal)
    ELSE HyperarousalLoopState

\* ----------------------------------------------------- ControlFailureLoop
ControlFailureLoopState ==
    [inhibition_strength |-> 10000, cognitive_flexibility |-> 10000,
     working_memory_capacity |-> 10000, executive_function |-> 10000,
     negative_thought_frequency |-> 0]

UpdateControlFromImpairment(sub, impairment0) ==
    LET impairment == Clip(impairment0, 0, 10000)
    IN [sub EXCEPT !.inhibition_strength = 10000 - Mul(impairment, 7000),
                   !.cognitive_flexibility = 10000 - Mul(impairment, 6000),
                   !.working_memory_capacity = 10000 - Mul(impairment, 5000),
                   !.executive_function = 10000 - Mul(impairment, 6000)]

NewControlFailureLoop(initial_impairment) ==
    IF initial_impairment > 0
    THEN UpdateControlFromImpairment(ControlFailureLoopState, initial_impairment)
    ELSE ControlFailureLoopState

\* ----------------------------------------------------- EnergyCollapseLoop
EnergyCollapseLoopState ==
    [current_energy |-> 100 * Scale, energy_depletion_rate |-> 1000,
     recovery_rate |-> 500, sleep_quality |-> 10000, circadian_rhythm |-> 10000]

UpdateEnergyFromDepletion(sub, depletion_rate0) ==
    LET depletion_rate == Clip(depletion_rate0, 0, 10000)
    IN [sub EXCEPT !.energy_depletion_rate = 1000 + Mul(depletion_rate, 4000),
                   !.recovery_rate = Max(100, 500 - Mul(depletion_rate, 400)),
                   !.sleep_quality = 10000 - Mul(depletion_rate, 7000),
                   !.circadian_rhythm = 10000 - Mul(depletion_rate, 6000)]

NewEnergyCollapseLoop(initial_energy, initial_depletion_rate) ==
    LET sub == [EnergyCollapseLoopState EXCEPT
                   !.current_energy = Clip(initial_energy, 0, 100 * Scale)]
    IN IF initial_depletion_rate > 0
       THEN UpdateEnergyFromDepletion(sub, initial_depletion_rate)
       ELSE sub

\* --------------------------------------------------------------- BaseLoop
max_history_length == 1000

NewLoop(kind, parameters, sub) ==
    [name |-> kind, parameters |-> parameters, state |-> LoopState,
     sub |-> sub, history |-> << >>]

\* Mutant of AddToHistory: the oldest entry is never dropped.
AddToHistoryUnbounded(history, entry) == Append(history, entry)

AddToHistory(history, entry) ==
    LET appended == Append(history, entry)
    IN IF Len(appended) > max_history_length THEN Tail(appended) ELSE appended

\* Mutant of ApplyLoopEffect: the sub-state is left as it was.
ApplyLoopEffectSkipped(l) == l

\* _apply_loop_effect: each loop projects its sub-state from loop_strength
ApplyLoopEffect(l) ==
    CASE l.name = "NegativeBiasLoop" ->
           [l EXCEPT !.sub = UpdateBiasFromStrength(l.sub, l.state.loop_strength)]
      [] l.name = "HyperarousalLoop" ->
           [l EXCEPT !.sub = UpdateArousalFromStrength(l.sub, l.state.loop_strength)]
      [] l.name = "ControlFailureLoop" ->
           [l EXCEPT !.sub = UpdateControlFromImpairment(l.sub, l.state.loop_strength)]
      [] l.name = "EnergyCollapseLoop" ->
           [l EXCEPT !.sub = UpdateEnergyFromDepletion(l.sub, l.state.loop_strength)]

\* Mutant of Reinforce: the reinforcement condition is negated.
ReinforceNegated(l, cond, factor) ==
    IF ~cond
    THEN [l EXCEPT !.state.loop_strength =
             Min(l.parameters.max_strength, @ + Mul(l.parameters.loop_gain, factor))]
    ELSE l

\* One reinforcement term: loop_strength = min(max_strength, loop_strength + gain * factor)
Reinforce(l, cond, factor) ==
    IF cond
    THEN [l EXCEPT !.state.loop_strength =
             Min(l.parameters.max_strength, @ + Mul(l.parameters.loop_gain, factor))]
    ELSE l

\* Mutant of BaseReinforceLoop: the default reinforcement is also given at
\* loop_strength = loop_threshold.
BaseReinforceLoopAtThreshold(l) ==
    Reinforce(l, l.state.loop_strength >= l.parameters.loop_threshold, 1000)

BaseReinforceLoop(l) ==
    Reinforce(l, l.state.loop_strength > l.parameters.loop_threshold, 1000)

ReinforceLoop(l) ==
    LET b == BaseReinforceLoop(l)
    IN CASE l.name = "NegativeBiasLoop" ->
              Reinforce(Reinforce(b, b.sub.rumination_strength > 5000, 2000),
                        b.sub.memory_bias > 5000, 1500)
         [] l.name = "HyperarousalLoop" ->
              Reinforce(Reinforce(b, b.sub.sleep_quality < 5000, 2500),
                        b.sub.arousal_level > 6000, 2000)
         [] l.name = "ControlFailureLoop" ->
              Reinforce(Reinforce(b, b.sub.inhibition_strength < 5000, 2000),
                        b.sub.negative_thought_frequency > 5000, 1500)
         [] l.name = "EnergyCollapseLoop" ->
              Reinforce(Reinforce(b, b.sub.current_energy \div 100 < 3000, 3000),
                        b.sub.sleep_quality < 5000, 2000)

\* Mutant of Trigger: is_active is tested on the strength before the base
\* increase.
TriggerActiveBefore(l, intensity) ==
    LET prev_strength == l.state.loop_strength
        strength_increase == Mul(intensity, l.parameters.loop_gain)
        new_strength == Min(l.parameters.max_strength, prev_strength + strength_increase)
        is_active == prev_strength >= l.parameters.loop_threshold
        activated == [l EXCEPT !.state.loop_strength = new_strength,
                               !.state.activation_count = IF is_active THEN @ + 1 ELSE @,
                               !.state.last_activation_time = IF is_active THEN 0 ELSE @]
        effected == ApplyLoopEffect(activated)
        reinforced == IF is_active THEN ReinforceLoop(effected) ELSE effected
    IN [reinforced EXCEPT !.history = AddToHistory(@,
            [time |-> reinforced.state.last_activation_time,
             trigger_intensity |-> intensity,
             prev_strength |-> prev_strength,
             new_strength |-> reinforced.state.loop_strength,
             is_active |-> is_active,
             effect |-> effected.sub])]

Trigger(l, intensity) ==
    LET prev_strength == l.state.loop_strength
        strength_increase == Mul(intensity, l.parameters.loop_gain)
        new_strength == Min(l.parameters.max_strength, prev_strength + strength_increase)
        is_active == new_strength >= l.parameters.loop_threshold
        activated == [l EXCEPT !.state.loop_strength = new_strength,
                               !.state.activation_count = IF is_active THEN @ + 1 ELSE @,
                               !.state.last_activation_time = IF is_active THEN 0 ELSE @]
        effected == ApplyLoopEffect(activated)
        reinforced == IF is_active THEN ReinforceLoop(effected) ELSE effected
    IN [reinforced EXCEPT !.history = AddToHistory(@,
            [time |-> reinforced.state.last_activation_time,
             trigger_intensity |-> intensity,
             prev_strength |-> prev_strength,
             new_strength |-> reinforced.state.loop_strength,
             is_active |-> is_active,
             effect |-> effected.sub])]

\* external_factors: << >> is None (or an empty dict), <<x>> is
\* {'intervention_strength': x}
ApplyExternalFactors(l, factors) ==
    IF Len(factors) > 0
    THEN [l EXCEPT !.state.loop_strength = Max(l.parameters.min_strength, @ - factors[1])]
    ELSE l

\* Mutant of BaseUpdate: the decayed strength is recorded in the history.
BaseUpdateRecorded(l, dt, external_factors) ==
    LET strength == Max(l.parameters.min_strength,
                        Mul(l.state.loop_strength, Pow(l.parameters.loop_decay, dt)))
    IN [l EXCEPT !.state.loop_strength = strength,
                 !.state.last_activation_time = @ + dt,
                 !.history = AddToHistory(@,
                     [time |-> l.state.last_activation_time + dt,
                      trigger_intensity |-> 0,
                      prev_strength |-> l.state.loop_strength,
                      new_strength |-> strength,
                      is_active |-> FALSE,
                      effect |-> l.sub])]

\* Mutant of BaseUpdate: last_activation_time is not advanced.
BaseUpdateNoClock(l, dt, external_factors) ==
    LET decay_factor == Pow(l.parameters.loop_decay, dt)
        decayed == [l EXCEPT !.state.loop_strength = Mul(@, decay_factor)]
        adjusted == ApplyExternalFactors(decayed, external_factors)
        strength == Max(l.parameters.min_strength, adjusted.state.loop_strength)
    IN [adjusted EXCEPT !.state.loop_strength = strength,
                        !.state.cumulative_effect = Mul(@, 9900) + Mul(strength, 100)]

BaseUpdate(l, dt, external_factors) ==
    LET decay_factor == Pow(l.parameters.loop_decay, dt)
        decayed == [l EXCEPT !.state.last_activation_time = @ + dt,
                             !.state.loop_strength = Mul(@, decay_factor)]
        adjusted == ApplyExternalFactors(decayed, external_factors)
        strength == Max(l.parameters.min_strength, adjusted.state.loop_strength)
    IN [adjusted EXCEPT !.state.loop_strength = strength,
                        !.state.cumulative_effect = Mul(@, 9900) + Mul(strength, 100)]

\* update(): BaseLoop.update, then the loop's own decay terms, then the
\* projection of the sub-state from the new loop_strength.  EnergyCollapseLoop
\* does not override update.
Update(l, dt, external_factors) ==
    LET u == BaseUpdate(l, dt, external_factors)
    IN CASE l.name = "NegativeBiasLoop" ->
              LET decayed == [u.sub EXCEPT
                      !.rumination_strength = Mul(@, Pow(9500, dt)),
                      !.memory_bias = Mul(@, Pow(9800, dt))]
              IN [u EXCEPT !.sub = UpdateBiasFromStrength(decayed, u.state.loop_strength)]
         [] l.name = "HyperarousalLoop" ->
              LET arousal_decay == IF u.sub.sleep_quality > 5000 THEN 9800 ELSE 9900
                  arousal_level == Mul(u.sub.arousal_level, Pow(arousal_decay, dt))
                  sleep_quality == IF arousal_level < 3000
                                   THEN Min(10000, u.sub.sleep_quality + 20 * dt)
                                   ELSE u.sub.sleep_quality
                  decayed == [u.sub EXCEPT
                      !.arousal_level = arousal_level,
                      !.sleep_quality = sleep_quality,
                      !.threat_vigilance = Max(10000, Mul(@, Pow(9900, dt)))]
              IN [u EXCEPT !.sub = UpdateArousalFromStrength(decayed, u.state.loop_strength)]
         [] l.name = "ControlFailureLoop" ->
              LET decayed == [u.sub EXCEPT
                      !.negative_thought_frequency = Mul(@, Pow(9900, dt))]
              IN [u EXCEPT !.sub = UpdateControlFromImpairment(decayed, u.state.loop_strength)]
         [] l.name = "EnergyCollapseLoop" -> u

\* Mutant of ProcessStimulus: a positive stimulus leaves rumination_strength
\* as it is.
ProcessStimulusNoRelief(l, stimulus_valence, stimulus_intensity) ==
    IF stimulus_valence < 0
    THEN LET trigger_intensity == Mul(-stimulus_valence, stimulus_intensity)
             t == Trigger(l, trigger_intensity)
         IN [t EXCEPT
               !.sub.rumination_strength = Min(10000, @ + Mul(1000, trigger_intensity)),
               !.sub.memory_bias = Min(10000, @ + Mul(500, trigger_intensity))]
    ELSE l

\* NegativeBiasLoop.process_stimulus
ProcessStimulus(l, stimulus_valence, stimulus_intensity) ==
    IF stimulus_valence < 0
    THEN LET trigger_intensity == Mul(-stimulus_valence, stimulus_intensity)
             t == Trigger(l, trigger_intensity)
         IN [t EXCEPT
               !.sub.rumination_strength = Min(10000, @ + Mul(1000, trigger_intensity)),
               !.sub.memory_bias = Min(10000, @ + Mul(500, trigger_intensity))]
    ELSE IF stimulus_valence > 0
    THEN [l EXCEPT !.sub.rumination_strength = Mul(@, 9500)]
    ELSE l

\* HyperarousalLoop.detect_threat
DetectThreat(l, threat_intensity) ==
    LET t == Trigger(l, threat_intensity)
    IN [t EXCEPT
          !.sub.arousal_level = Min(10000, @ + Mul(threat_intensity, 2000)),
          !.sub.sleep_quality = Max(0, @ - Mul(threat_intensity, 1000)),
          !.sub.threat_vigilance = Min(25000, @ + Mul(threat_intensity, 1000))]

\* ControlFailureLoop.process_negative_thought; r is the value self.rng.random()
\* returns when it is called (only when inhibition_strength > 0.5)
\* (mutant of InhibitionSuccess: the test inhibition_strength > 0.5 is dropped)
InhibitionSuccessUngated(l, r) == r < l.sub.inhibition_strength

InhibitionSuccess(l, r) ==
    l.sub.inhibition_strength > 5000 /\ r < l.sub.inhibition_strength

ProcessNegativeThought(l, thought_intensity, r) ==
    IF InhibitionSuccess(l, r)
    THEN [l EXCEPT !.state.loop_strength = Mul(@, 9000)]
    ELSE LET t == Trigger(l, thought_intensity)
         IN [t EXCEPT !.sub.negative_thought_frequency =
                         Min(10000, @ + Mul(1000, thought_intensity))]

\* ControlFailureLoop.attempt_cognitive_control; r is the one draw it takes
AttemptCognitiveControl(l, task_difficulty, r) ==
    LET base_success == l.sub.executive_function
        difficulty_factor == 10000 - Mul(task_difficulty, 5000)
        success_probability == Mul(base_success, difficulty_factor)
        success == r < success_probability
    IN IF success
       THEN l
       ELSE Trigger(l, Mul(task_difficulty, 10000 - success_probability))

\* EnergyCollapseLoop.consume_energy
Consumption(l, cognitive_load, stress_level) ==
    Mul(l.sub.energy_depletion_rate,
        10000 + Mul(cognitive_load, 5000) + Mul(stress_level, 5000))

ConsumeEnergy(l, cognitive_load, stress_level) ==
    LET consumption == Consumption(l, cognitive_load, stress_level)
        current_energy == Max(0, l.sub.current_energy - consumption)
        energy_ratio == current_energy \div 100
        consumed == [l EXCEPT !.sub.current_energy = current_energy]
    IN IF energy_ratio < 5000
       THEN Trigger(consumed, 10000 - energy_ratio)
       ELSE consumed

\* EnergyCollapseLoop.update_energy; dt in ticks, so "* dt" is "* dt / 10"
EffectiveRecovery(l, dt) ==
    LET recovery == (Mul(Mul(l.sub.recovery_rate, l.sub.sleep_quality),
                         l.sub.circadian_rhythm) * dt) \div 10
    IN IF l.sub.current_energy < 30 * Scale THEN recovery \div 2 ELSE recovery

\* Mutant of UpdateEnergy: recovery and consumption are swapped in
\* energy_change.
UpdateEnergyGain(l, cognitive_load, stress_level, dt) ==
    LET consumption == (Consumption(l, cognitive_load, stress_level) * dt) \div 10
        energy_change == consumption - EffectiveRecovery(l, dt)
        current_energy == Clip(l.sub.current_energy + energy_change, 0, 100 * Scale)
        energy_ratio == current_energy \div 100
        strength == IF energy_ratio < 3000
                    THEN Min(10000, l.state.loop_strength + Mul(500, 10000 - energy_ratio))
                    ELSE l.state.loop_strength
    IN Update([l EXCEPT !.sub.current_energy = current_energy,
                        !.state.loop_strength = strength], dt, << >>)

UpdateEnergy(l, cognitive_load, stress_level, dt) ==
    LET consumption == (Consumption(l, cognitive_load, stress_level) * dt) \div 10
        energy_change == EffectiveRecovery(l, dt) - consumption
        current_energy == Clip(l.sub.current_energy + energy_change, 0, 100 * Scale)
        energy_ratio == current_energy \div 100
        strength == IF energy_ratio < 3000
                    THEN Min(10000, l.state.loop_strength + Mul(500, 10000 - energy_ratio))
                    ELSE l.state.loop_strength
    IN Update([l EXCEPT !.sub.current_energy = current_energy,
                        !.state.loop_strength = strength], dt, << >>)

\* ----------------------------------------------------- ClosedLoopDynamics
\* energy is kept at Scale units per 1.0 like every other field, so its
\* upper bound 100.0 is 100 * Scale.
StateVector ==
    [attention |-> 5000, arousal |-> 5000, pfc_inhibition |-> 5000,
     dopamine_level |-> 5000, discount_rate |-> 5000, thalamus_gate |-> 5000,
     bg_drive |-> 5000, energy |-> 5000, noise_level |-> 1000]

state_history_maxlen == 1000

NewClosedLoopDynamics ==
    [state |-> StateVector, state_history |-> << >>, feedback_loops |-> << >>,
     time_elapsed |-> 0, dt |-> 1]

\* Mutant of DequeAppend: a full deque gives up its newest entry.
DequeAppendEvictNewest(history, entry) ==
    IF Len(history) >= state_history_maxlen
    THEN Append(SubSeq(history, 1, Len(history) - 1), entry)
    ELSE Append(history, entry)

\* a deque(maxlen=...) drops its oldest entry when a full deque is appended to
DequeAppend(history, entry) ==
    IF Len(history) >= state_history_maxlen
    THEN Append(Tail(history), entry)
    ELSE Append(history, entry)

RECURSIVE DistractionSum(_)
DistractionSum(distractions) ==
    IF distractions = << >> THEN 0
    ELSE Mul(Head(distractions).intensity, Head(distractions).relevance)
           + DistractionSum(Tail(distractions))

\* Mutant of UpdateBasicDynamics: the distraction penalty is scaled by
\* 1 - thalamus_gate.
UpdateBasicDynamicsGateInverted(state, external_input, dt) ==
    LET dopamine == state.dopamine_level
        attention_decay == (200 * (IF dopamine < 4000 THEN 2 ELSE 1) * dt) \div 10
        base_attention == Mul(external_input.task_importance, Scale - attention_decay)
        distraction_penalty == Mul(DistractionSum(external_input.distractions), 3000)
        effective_distraction == Mul(distraction_penalty, Scale - state.thalamus_gate)
        inhibition_decay == ((IF dopamine < 4000 THEN 150 ELSE 100) * dt) \div 10
        bg_boost == IF dopamine < 4000 THEN Mul(4000 - dopamine, 5000) ELSE 0
        energy_factor == IF state.energy > 0 THEN state.energy \div 100 ELSE 5000
        discount_boost == IF dopamine < 4000 THEN Mul(4000 - dopamine, 4000) ELSE 0
    IN [state EXCEPT
          !.attention = Max(0, base_attention - effective_distraction),
          !.pfc_inhibition = Max(0, @ - inhibition_decay),
          !.bg_drive = Clip(5000 + bg_boost, 0, Scale),
          !.thalamus_gate = Clip((energy_factor + state.arousal) \div 2, 0, Scale),
          !.discount_rate = Clip(3000 + discount_boost, 0, Scale)]

\* Mutant of UpdateBasicDynamics: thalamus_gate moves halfway from its old
\* value towards the average of energy and arousal.
UpdateBasicDynamicsGateKept(state, external_input, dt) ==
    LET dopamine == state.dopamine_level
        attention_decay == (200 * (IF dopamine < 4000 THEN 2 ELSE 1) * dt) \div 10
        base_attention == Mul(external_input.task_importance, Scale - attention_decay)
        distraction_penalty == Mul(DistractionSum(external_input.distractions), 3000)
        effective_distraction == Mul(distraction_penalty, state.thalamus_gate)
        inhibition_decay == ((IF dopamine < 4000 THEN 150 ELSE 100) * dt) \div 10
        bg_boost == IF dopamine < 4000 THEN Mul(4000 - dopamine, 5000) ELSE 0
        energy_factor == IF state.energy > 0 THEN state.energy \div 100 ELSE 5000
        discount_boost == IF dopamine < 4000 THEN Mul(4000 - dopamine, 4000) ELSE 0
    IN [state EXCEPT
          !.attention = Max(0, base_attention - effective_distraction),
          !.pfc_inhibition = Max(0, @ - inhibition_decay),
          !.bg_drive = Clip(5000 + bg_boost, 0, Scale),
          !.thalamus_gate = (@ + Clip((energy_factor + state.arousal) \div 2, 0, Scale)) \div 2,
          !.discount_rate = Clip(3000 + discount_boost, 0, Scale)]

\* _update_basic_dynamics; dt in ticks, so "0.02 * dt" is "200 * dt / 10"
UpdateBasicDynamics(state, external_input, dt) ==
    LET dopamine == state.dopamine_level
        attention_decay == (200 * (IF dopamine < 4000 THEN 2 ELSE 1) * dt) \div 10
        base_attention == Mul(external_input.task_importance, Scale - attention_decay)
        distraction_penalty == Mul(DistractionSum(external_input.distractions), 3000)
        effective_distraction == Mul(distraction_penalty, state.thalamus_gate)
        inhibition_decay == ((IF dopamine < 4000 THEN 150 ELSE 100) * dt) \div 10
        bg_boost == IF dopamine < 4000 THEN Mul(4000 - dopamine, 5000) ELSE 0
        energy_factor == IF state.energy > 0 THEN state.energy \div 100 ELSE 5000
        discount_boost == IF dopamine < 4000 THEN Mul(4000 - dopamine, 4000) ELSE 0
    IN [state EXCEPT
          !.attention = Max(0, base_attention - effective_distraction),
          !.pfc_inhibition = Max(0, @ - inhibition_decay),
          !.bg_drive = Clip(5000 + bg_boost, 0, Scale),
          !.thalamus_gate = Clip((energy_factor + state.arousal) \div 2, 0, Scale),
          !.discount_rate = Clip(3000 + discount_boost, 0, Scale)]

\* Feedback callables a caller registers: (state, dt) -> state.  They are the
\* caller's code, so they may return any StateVector.
FeedbackFuncs == {"identity", "overshoot", "undershoot", "negative_noise"}

Feedback(f, state, dt) ==
    CASE f = "identity" -> state
      [] f = "overshoot" ->
           [state EXCEPT !.attention = @ + 2 * Scale, !.arousal = 3 * Scale,
                         !.thalamus_gate = 2 * Scale, !.bg_drive = @ + Scale,
                         !.discount_rate = @ + Scale, !.energy = @ + 150 * Scale,
                         !.noise_level = 5 * Scale]
      [] f = "undershoot" ->
           [state EXCEPT !.attention = @ - Scale, !.arousal = -Scale,
                         !.pfc_inhibition = @ - 2 * Scale, !.dopamine_level = -3000,
                         !.discount_rate = -Scale, !.thalamus_gate = -Scale,
                         !.bg_drive = -Scale, !.energy = -20 * Scale]
      [] f = "negative_noise" -> [state EXCEPT !.noise_level = -5000]

RECURSIVE RunFeedbackLoops(_, _, _)
RunFeedbackLoops(feedback_loops, state, dt) ==
    IF feedback_loops = << >> THEN state
    ELSE RunFeedbackLoops(Tail(feedback_loops),
                          Feedback(Head(feedback_loops), state, dt), dt)

\* rng.normal(0, scale) raises ValueError when scale < 0.  A scale of -0.0
\* (negative noise_level, dt = 0) is rejected by some numpy builds and
\* accepted by others.
NormalRaises(state, dt) ==
    IF state.noise_level * dt < 0 THEN {TRUE}
    ELSE IF state.noise_level < 0 /\ dt = 0 THEN {TRUE, FALSE}
    ELSE {FALSE}

\* _add_noise; z holds the four standard-normal draws, rng.normal(0, s) = z * s
AddNoise(state, dt, z) ==
    LET noise_scale == (state.noise_level * dt) \div 10
    IN [state EXCEPT
          !.attention = @ + Mul(z[1], Mul(noise_scale, 1000)),
          !.arousal = @ + Mul(z[2], Mul(noise_scale, 1000)),
          !.pfc_inhibition = @ + Mul(z[3], Mul(noise_scale, 500)),
          !.dopamine_level = @ + Mul(z[4], Mul(noise_scale, 500))]

ClampState(state) ==
    [attention |-> Clip(state.attention, 0, Scale),
     arousal |-> Clip(state.arousal, 0, Scale),
     pfc_inhibition |-> Clip(state.pfc_inhibition, 0, Scale),
     dopamine_level |-> Clip(state.dopamine_level, 0, Scale),
     discount_rate |-> Clip(state.discount_rate, 0, Scale),
     thalamus_gate |-> Clip(state.thalamus_gate, 0, Scale),
     bg_drive |-> Clip(state.bg_drive, 0, Scale),
     energy |-> Clip(state.energy, 0, 100 * Scale),
     noise_level |-> Clip(state.noise_level, 0, Scale)]

\* dt argument: << >> is None (self.dt is used), <<x>> is x ticks
DtOrDefault(c, dt) == IF dt = << >> THEN c.dt ELSE dt[1]

\* update_state up to and including the feedback callables
BeforeNoise(c, external_input, dt) ==
    LET d == DtOrDefault(c, dt)
    IN [c EXCEPT !.time_elapsed = @ + d,
                 !.state = RunFeedbackLoops(c.feedback_loops,
                               UpdateBasicDynamics(c.state, external_input, d), d)]

\* update_state: when rng.normal raises, the call ends there, the state is
\* the one the callables returned and nothing is appended to the history
UpdateState(c, external_input, dt, z, raises) ==
    LET b == BeforeNoise(c, external_input, dt)
        clamped == ClampState(AddNoise(b.state, DtOrDefault(c, dt), z))
    IN IF raises THEN b
       ELSE [b EXCEPT !.state = clamped,
                      !.state_history = DequeAppend(@, clamped)]

ApplyFeedback(c, attention_score, impulse_score, hyperactivity_score) ==
    [c EXCEPT
       !.state.thalamus_gate = Clip(@ + Mul(attention_score - 5000, 2000), 0, Scale),
       !.state.pfc_inhibition = Clip(@ - Mul(impulse_score - 5000, 2000), 0, Scale),
       !.state.arousal = Clip(@ + Mul(hyperactivity_score - 5000, 3000), 0, Scale)]

RegisterFeedbackLoop(c, feedback_func) ==
    [c EXCEPT !.feedback_loops = Append(@, feedback_func)]

\* -------------------------------------------------------- ReproducibleRNG
\* A numpy Generator is modelled by the state of a linear congruential
\* generator: every draw advances the state and its value is computed from the
\* new state.  Generators are objects with identity: a run keeps them in
\* `generators` and every holder (main_rng, _sub_rngs, a loop's self.rng)
\* refers to one by its index.
Modulus == 2^16 + 1

LcgNext(x) == (x * 75 + 74) % Modulus

RECURSIVE LcgSkip(_, _)
LcgSkip(x, n) == IF n <= 0 THEN x ELSE LcgSkip(LcgNext(x), n - 1)

\* Mutant of DefaultRng: the seed is ignored, the generator is seeded from
\* the operating system's entropy.
DefaultRngUnseeded(seed, e) == (e * 7919 + 13) % Modulus

\* np.random.default_rng(seed): << >> is None (seeded from the operating
\* system's entropy e), <<s>> is the seed s
DefaultRng(seed, e) ==
    IF seed = << >> THEN (e * 7919 + 13) % Modulus
    ELSE (seed[1] * 7919 + 13) % Modulus

\* values of generator.integers(0, 2**32), generator.random() and of a
\* standard-normal draw, from the state the draw leaves behind
IntegersValue(x) == x

RandomValue(x) == (x * Scale) \div Modulus

StdNormalValue(x) == ((x % 9) - 4) * Scale

\* Python dicts keep insertion order: a sequence of [key, value] entries
DictHas(d, k) == \E i \in 1..Len(d) : d[i].key = k

DictGet(d, k) == d[CHOOSE i \in 1..Len(d) : d[i].key = k].value

DictSet(d, k, v) ==
    IF DictHas(d, k)
    THEN [i \in 1..Len(d) |-> IF d[i].key = k THEN [key |-> k, value |-> v] ELSE d[i]]
    ELSE Append(d, [key |-> k, value |-> v])

PredefinedComponents == <<"attention", "impulse", "hyperactivity", "dopamine", "brain">>

\* ReproducibleRNG.__init__; with seed None the seed is drawn from the global
\* (entropy-seeded) generator
NewReproducibleRNG(seed, e) ==
    LET s == IF seed = << >> THEN e ELSE seed[1]
        g == DefaultRng(<<s>>, e)
    IN [seed |-> s,
        main_rng |-> 1,
        generators |-> <<LcgSkip(g, Len(PredefinedComponents))>>,
        subseeds |-> [i \in 1..Len(PredefinedComponents) |->
                         [key |-> PredefinedComponents[i],
                          value |-> IntegersValue(LcgSkip(g, i))]],
        sub_rngs |-> << >>]

\* get_rng: the run after the call and the generator it returns
GetRng(run, component, e) ==
    IF component = "main" THEN [run |-> run, rng |-> run.main_rng]
    ELSE IF DictHas(run.sub_rngs, component)
    THEN [run |-> run, rng |-> DictGet(run.sub_rngs, component)]
    ELSE IF DictHas(run.subseeds, component)
    THEN [run |-> [run EXCEPT
                     !.generators = Append(@, DefaultRng(<<DictGet(run.subseeds, component)>>, e)),
                     !.sub_rngs = DictSet(@, component, Len(run.generators) + 1)],
          rng |-> Len(run.generators) + 1]
    ELSE LET drawn == LcgNext(run.generators[run.main_rng])
             subseed == IntegersValue(drawn)
         IN [run |-> [run EXCEPT
                        !.generators = Append([@ EXCEPT ![run.main_rng] = drawn],
                                              DefaultRng(<<subseed>>, e)),
                        !.subseeds = DictSet(@, component, subseed),
                        !.sub_rngs = DictSet(@, component, Len(run.generators) + 1)],
             rng |-> Len(run.generators) + 1]

\* reset: a new main generator, no sub generators, and every key of subseeds
\* (in insertion order) gets a new subseed from the new main generator
ResetRng(run, seed, e) ==
    LET s == IF seed = << >> THEN run.seed ELSE seed[1]
        g == DefaultRng(<<s>>, e)
    IN [run EXCEPT
          !.seed = s,
          !.main_rng = Len(run.generators) + 1,
          !.generators = Append(@, LcgSkip(g, Len(run.subseeds))),
          !.sub_rngs = << >>,
          !.subseeds = [i \in 1..Len(run.subseeds) |->
                           [key |-> run.subseeds[i].key,
                            value |-> IntegersValue(LcgSkip(g, i))]]]

\* A run: one ReproducibleRNG, a ControlFailureLoop and a ClosedLoopDynamics
\* that were given generators obtained by name, and the values drawn so far.
NewRun(seed, e, loop_component, cld_component) ==
    LET r == NewReproducibleRNG(seed, e)
        base == [seed |-> r.seed, main_rng |-> r.main_rng, generators |-> r.generators,
                 subseeds |-> r.subseeds, sub_rngs |-> r.sub_rngs,
                 loop |-> NewLoop("ControlFailureLoop",
                                  DefaultParameters("ControlFailureLoop"),
                                  NewControlFailureLoop(4000)),
                 loop_rng |-> 0, cld |-> NewClosedLoopDynamics, cld_rng |-> 0,
                 drawn |-> << >>]
        g1 == GetRng(base, loop_component, e)
        g2 == GetRng(g1.run, cld_component, e)
    IN [g2.run EXCEPT !.loop_rng = g1.rng, !.cld_rng = g2.rng]

\* get_rng(component).random()
RunDraw(run, component, e) ==
    LET g == GetRng(run, component, e)
        x == LcgNext(g.run.generators[g.rng])
    IN [g.run EXCEPT !.generators[g.rng] = x,
                     !.drawn = Append(@, RandomValue(x))]

\* process_negative_thought draws from self.rng only when
\* inhibition_strength > 0.5
RunProcessNegativeThought(run, thought_intensity) ==
    LET x == LcgNext(run.generators[run.loop_rng])
    IN IF run.loop.sub.inhibition_strength > 5000
       THEN [run EXCEPT
               !.generators[run.loop_rng] = x,
               !.drawn = Append(@, RandomValue(x)),
               !.loop = ProcessNegativeThought(@, thought_intensity, RandomValue(x))]
       ELSE [run EXCEPT !.loop = ProcessNegativeThought(@, thought_intensity, 0)]

RunAttemptCognitiveControl(run, task_difficulty) ==
    LET x == LcgNext(run.generators[run.loop_rng])
    IN [run EXCEPT
          !.generators[run.loop_rng] = x,
          !.drawn = Append(@, RandomValue(x)),
          !.loop = AttemptCognitiveControl(@, task_difficulty, RandomValue(x))]

\* update_state takes its four normal draws from the integrator's self.rng
RunUpdateState(run, external_input, dt) ==
    LET g == run.generators[run.cld_rng]
        z == [i \in 1..4 |-> StdNormalValue(LcgSkip(g, i))]
    IN [run EXCEPT
          !.generators[run.cld_rng] = LcgSkip(g, 4),
          !.drawn = @ \o z,
          !.cld = UpdateState(@, external_input, dt, z, FALSE)]

\* ControlFailureLoop.get_control_score
GetControlScore(l) ==
    Clip(Mul(l.sub.inhibition_strength, 3000)
           + Mul(l.sub.cognitive_flexibility, 2000)
           + Mul(l.sub.working_memory_capacity, 2000)
           + Mul(l.sub.executive_function, 2000)
           + Mul(Scale - l.sub.negative_thought_frequency, 1000), 0, Scale)

\* ------------------------------------------------- inputs the callers pass
Intensities == {0, 5000, 10000}

Valences == {-10000, -5000, 0, 8000}

Dts == {0, 1, 2}

ExternalFactors == {<< >>, <<1000>>}

Draws == {0, 6000, 9999}

Loads == {0, 10000}

InitialStrengths == {0, 3000}

InitialEnergies == {100 * Scale, 80 * Scale, 503000, 25 * Scale}

ParameterChoices(kind) == {DefaultParameters(kind)} \cup CustomParameters

NewLoops ==
    {NewLoop("NegativeBiasLoop", p, NewNegativeBiasLoop(a)) :
        p \in ParameterChoices("NegativeBiasLoop"), a \in InitialStrengths}
    \cup
    {NewLoop("HyperarousalLoop", p, NewHyperarousalLoop(a)) :
        p \in ParameterChoices("HyperarousalLoop"), a \in InitialStrengths}
    \cup
    {NewLoop("ControlFailureLoop", p, NewControlFailureLoop(a)) :
        p \in ParameterChoices("ControlFailureLoop"), a \in InitialStrengths}
    \cup
    {NewLoop("EnergyCollapseLoop", p, NewEnergyCollapseLoop(e, a)) :
        p \in ParameterChoices("EnergyCollapseLoop"), e \in InitialEnergies,
        a \in InitialStrengths}

\* ------------------------------------------------------------ loop actions
\* last: the call that produced the current state, with its arguments
Called(op, args) == [op |-> op, args |-> args, raised |-> FALSE]

Init ==
    /\ loop \in NewLoops
    /\ last = Called("__init__", << >>)
    /\ steps = 0
    /\ cld = NewClosedLoopDynamics
    /\ twin = << >>
    /\ runs = << >>
    /\ entropy = << >>

DoTrigger ==
    /\ steps < MaxSteps
    /\ \E i \in Intensities :
          /\ loop' = Trigger(loop, i)
          /\ last' = Called("trigger", <<i>>)
    /\ steps' = steps + 1
    /\ UNCHANGED notLoop

DoUpdate ==
    /\ steps < MaxSteps
    /\ \E dt \in Dts, f \in ExternalFactors :
          /\ loop' = Update(loop, dt, f)
          /\ last' = Called("update", <<dt, f>>)
    /\ steps' = steps + 1
    /\ UNCHANGED notLoop

DoProcessStimulus ==
    /\ steps < MaxSteps
    /\ loop.name = "NegativeBiasLoop"
    /\ \E v \in Valences, i \in Intensities :
          /\ loop' = ProcessStimulus(loop, v, i)
          /\ last' = Called("process_stimulus", <<v, i>>)
    /\ steps' = steps + 1
    /\ UNCHANGED notLoop

DoDetectThreat ==
    /\ steps < MaxSteps
    /\ loop.name = "HyperarousalLoop"
    /\ \E i \in Intensities :
          /\ loop' = DetectThreat(loop, i)
          /\ last' = Called("detect_threat", <<i>>)
    /\ steps' = steps + 1
    /\ UNCHANGED notLoop

DoProcessNegativeThought ==
    /\ steps < MaxSteps
    /\ loop.name = "ControlFailureLoop"
    /\ \E i \in Intensities, r \in Draws :
          /\ loop' = ProcessNegativeThought(loop, i, r)
          /\ last' = Called("process_negative_thought", <<i, r>>)
    /\ steps' = steps + 1
    /\ UNCHANGED notLoop

DoAttemptCognitiveControl ==
    /\ steps < MaxSteps
    /\ loop.name = "ControlFailureLoop"
    /\ \E d \in Intensities, r \in Draws :
          /\ loop' = AttemptCognitiveControl(loop, d, r)
          /\ last' = Called("attempt_cognitive_control", <<d, r>>)
    /\ steps' = steps + 1
    /\ UNCHANGED notLoop

DoConsumeEnergy ==
    /\ steps < MaxSteps
    /\ loop.name = "EnergyCollapseLoop"
    /\ \E c \in Loads, s \in Loads :
          /\ loop' = ConsumeEnergy(loop, c, s)
          /\ last' = Called("consume_energy", <<c, s>>)
    /\ steps' = steps + 1
    /\ UNCHANGED notLoop

DoUpdateEnergy ==
    /\ steps < MaxSteps
    /\ loop.name = "EnergyCollapseLoop"
    /\ \E c \in Loads, s \in Loads, dt \in Dts :
          /\ loop' = UpdateEnergy(loop, c, s, dt)
          /\ last' = Called("update_energy", <<c, s, dt>>)
    /\ steps' = steps + 1
    /\ UNCHANGED notLoop

Next ==
    \/ DoTrigger
    \/ DoUpdate
    \/ DoProcessStimulus
    \/ DoDetectThreat
    \/ DoProcessNegativeThought
    \/ DoAttemptCognitiveControl
    \/ DoConsumeEnergy
    \/ DoUpdateEnergy

Spec == Init /\ [][Next]_vars

\* ---------------------------------------------- ClosedLoopDynamics actions
ExternalInputs ==
    { [task_importance |-> 5000, distractions |-> << >>],
      [task_importance |-> 8000,
       distractions |-> << [intensity |-> 10000, relevance |-> 10000] >>],
      [task_importance |-> 3 * Scale,
       distractions |-> << [intensity |-> -2 * Scale, relevance |-> 5000] >>] }

CldDts == {<< >>, <<0>>, <<2>>}

NormalDraws == {<<0, 0, 0, 0>>, <<4 * Scale, -4 * Scale, 4 * Scale, -4 * Scale>>}

Scores == {0, 5000, 10000}

MaxFeedbackLoops == 2

InitCLD ==
    /\ loop \in {NewLoop("NegativeBiasLoop", DefaultParameters("NegativeBiasLoop"),
                         NewNegativeBiasLoop(0))}
    /\ last = Called("__init__", << >>)
    /\ steps = 0
    /\ cld = NewClosedLoopDynamics
    /\ twin = << >>
    /\ runs = << >>
    /\ entropy = << >>

DoRegisterFeedbackLoop ==
    /\ steps < MaxCldSteps
    /\ Len(cld.feedback_loops) < MaxFeedbackLoops
    /\ \E f \in FeedbackFuncs :
          /\ cld' = RegisterFeedbackLoop(cld, f)
          /\ last' = Called("register_feedback_loop", <<f>>)
    /\ steps' = steps + 1
    /\ UNCHANGED notCld

DoUpdateState ==
    /\ steps < MaxCldSteps
    /\ \E input \in ExternalInputs, dt \in CldDts, z \in NormalDraws :
          \E raises \in NormalRaises(BeforeNoise(cld, input, dt).state,
                                     DtOrDefault(cld, dt)) :
             /\ cld' = UpdateState(cld, input, dt, z, raises)
             /\ last' = [op |-> "update_state", args |-> <<input, dt, z>>,
                         raised |-> raises]
    /\ steps' = steps + 1
    /\ UNCHANGED notCld

DoApplyFeedback ==
    /\ steps < MaxCldSteps
    /\ \E a \in Scores, i \in Scores, h \in Scores :
          /\ cld' = ApplyFeedback(cld, a, i, h)
          /\ last' = Called("apply_feedback", <<a, i, h>>)
    /\ steps' = steps + 1
    /\ UNCHANGED notCld

NextCLD ==
    \/ DoRegisterFeedbackLoop
    \/ DoUpdateState
    \/ DoApplyFeedback

SpecCLD == InitCLD /\ [][NextCLD]_vars

\* ------------------------------------------------------- long-running driver
\* A driver in the style of the repository's test loops: it calls trigger on
\* one loop and update_state on one integrator in turn, with fixed arguments,
\* for more calls than either history can hold.
DefaultLoops ==
    { NewLoop("NegativeBiasLoop", DefaultParameters("NegativeBiasLoop"),
              NewNegativeBiasLoop(3000)),
      NewLoop("HyperarousalLoop", DefaultParameters("HyperarousalLoop"),
              NewHyperarousalLoop(3000)),
      NewLoop("ControlFailureLoop", DefaultParameters("ControlFailureLoop"),
              NewControlFailureLoop(3000)),
      NewLoop("EnergyCollapseLoop", DefaultParameters("EnergyCollapseLoop"),
              NewEnergyCollapseLoop(80 * Scale, 3000)) }

InitDriver ==
    /\ loop \in DefaultLoops
    /\ last = Called("__init__", << >>)
    /\ steps = 0
    /\ cld = NewClosedLoopDynamics
    /\ twin = << >>
    /\ runs = << >>
    /\ entropy = << >>

DriverTrigger ==
    /\ steps < MaxDriverSteps
    /\ steps % 2 = 0
    /\ loop' = Trigger(loop, 10000)
    /\ last' = Called("trigger", <<10000>>)
    /\ steps' = steps + 1
    /\ UNCHANGED notLoop

DriverUpdateState ==
    /\ steps < MaxDriverSteps
    /\ steps % 2 = 1
    /\ \E input \in {[task_importance |-> 8000, distractions |-> << >>]} :
          /\ cld' = UpdateState(cld, input, <<1>>, <<0, 0, 0, 0>>, FALSE)
          /\ last' = Called("update_state", <<input, <<1>>, <<0, 0, 0, 0>>>>)
    /\ steps' = steps + 1
    /\ UNCHANGED notCld

NextDriver ==
    \/ DriverTrigger
    \/ DriverUpdateState

SpecDriver == InitDriver /\ [][NextDriver]_vars

\* ------------------------------------------- loop and reinforcement-free twin
\* The loop is triggered until it is above its threshold; then a deep copy
\* whose _reinforce_loop is replaced by a no-op is taken (twin), and both are
\* advanced by the same update(dt) calls.  update() never calls
\* _reinforce_loop, so the twin's update is the loop's update.
PrimeLoop ==
    /\ twin = << >>
    /\ DoTrigger

DoStubReinforce ==
    /\ twin = << >>
    /\ loop.state.loop_strength > loop.parameters.loop_threshold
    /\ twin' = <<loop>>
    /\ last' = Called("copy", << >>)
    /\ steps' = 0
    /\ UNCHANGED <<loop, cld, runs, entropy>>

DoUpdateBoth ==
    /\ twin # << >>
    /\ steps < MaxSteps
    /\ \E dt \in Dts :
          /\ loop' = Update(loop, dt, << >>)
          /\ twin' = <<Update(twin[1], dt, << >>)>>
          /\ last' = Called("update", <<dt, << >>>>)
    /\ steps' = steps + 1
    /\ UNCHANGED <<cld, runs, entropy>>

NextTwin ==
    \/ PrimeLoop
    \/ DoStubReinforce
    \/ DoUpdateBoth

SpecTwin == Init /\ [][NextTwin]_vars

\* ------------------------------------------------------- two seeded runs
\* Two runs of the same program: each builds ReproducibleRNG(seed), obtains
\* the generators of its loop and its integrator by name, and then makes the
\* same calls.  entropy[i] is what the operating system would hand run i for
\* an unseeded generator.
Seeds == {<< >>, <<1>>, <<2>>}

Entropies == {<<5, 5>>, <<5, 9>>}

Components == {"attention", "thought", "energy"}

StreamNames == {<<"cognitive_control", "brain">>, <<"thought", "thought">>}

InitRepro ==
    /\ loop \in {NewLoop("NegativeBiasLoop", DefaultParameters("NegativeBiasLoop"),
                         NewNegativeBiasLoop(0))}
    /\ last = Called("__init__", << >>)
    /\ steps = 0
    /\ cld = NewClosedLoopDynamics
    /\ twin = << >>
    /\ entropy \in Entropies
    /\ \E seed \in Seeds, n \in StreamNames :
          runs = [i \in 1..2 |-> NewRun(seed, entropy[i], n[1], n[2])]

notRuns == <<loop, cld, twin, entropy>>

ReproGetRng ==
    /\ steps < MaxReproSteps
    /\ \E c \in Components :
          /\ runs' = [i \in 1..2 |-> GetRng(runs[i], c, entropy[i]).run]
          /\ last' = Called("get_rng", <<c>>)
    /\ steps' = steps + 1
    /\ UNCHANGED notRuns

ReproDraw ==
    /\ steps < MaxReproSteps
    /\ \E c \in {"main", "thought"} :
          /\ runs' = [i \in 1..2 |-> RunDraw(runs[i], c, entropy[i])]
          /\ last' = Called("random", <<c>>)
    /\ steps' = steps + 1
    /\ UNCHANGED notRuns

ReproReset ==
    /\ steps < MaxReproSteps
    /\ \E seed \in {<< >>, <<2>>} :
          /\ runs' = [i \in 1..2 |-> ResetRng(runs[i], seed, entropy[i])]
          /\ last' = Called("reset", <<seed>>)
    /\ steps' = steps + 1
    /\ UNCHANGED notRuns

ReproProcessNegativeThought ==
    /\ steps < MaxReproSteps
    /\ \E t \in {5000, 10000} :
          /\ runs' = [i \in 1..2 |-> RunProcessNegativeThought(runs[i], t)]
          /\ last' = Called("process_negative_thought", <<t>>)
    /\ steps' = steps + 1
    /\ UNCHANGED notRuns

ReproAttemptCognitiveControl ==
    /\ steps < MaxReproSteps
    /\ \E d \in {5000, 10000} :
          /\ runs' = [i \in 1..2 |-> RunAttemptCognitiveControl(runs[i], d)]
          /\ last' = Called("attempt_cognitive_control", <<d>>)
    /\ steps' = steps + 1
    /\ UNCHANGED notRuns

ReproUpdateState ==
    /\ steps < MaxReproSteps
    /\ \E input \in {[task_importance |-> 8000, distractions |-> << >>]},
          dt \in {<< >>, <<2>>} :
          /\ runs' = [i \in 1..2 |-> RunUpdateState(runs[i], input, dt)]
          /\ last' = Called("update_state", <<input, dt>>)
    /\ steps' = steps + 1
    /\ UNCHANGED notRuns

NextRepro ==
    \/ ReproGetRng
    \/ ReproDraw
    \/ ReproReset
    \/ ReproProcessNegativeThought
    \/ ReproAttemptCognitiveControl
    \/ ReproUpdateState

SpecRepro == InitRepro /\ [][NextRepro]_vars

\* ------------------------------------------------------- projected fields
\* The sub-state fields each loop derives from loop_strength, and their
\* values for a given strength.
Projection(l, strength) ==
    CASE l.name = "NegativeBiasLoop" -> UpdateBiasFromStrength(l.sub, strength)
      [] l.name = "HyperarousalLoop" -> UpdateArousalFromStrength(l.sub, strength)
      [] l.name = "ControlFailureLoop" -> UpdateControlFromImpairment(l.sub, strength)
      [] l.name = "EnergyCollapseLoop" -> UpdateEnergyFromDepletion(l.sub, strength)

InRange(x, lo, hi) == lo <= x /\ x <= hi

StrengthInBounds(l) ==
    InRange(l.state.loop_strength, l.parameters.min_strength, l.parameters.max_strength)

SubStateInRange(l) ==
    CASE l.name = "NegativeBiasLoop" ->
           /\ InRange(l.sub.negative_amplification, 10000, 25000)
           /\ InRange(l.sub.positive_dampening, 3000, 10000)
           /\ InRange(l.sub.threat_sensitivity, 10000, 20000)
           /\ InRange(l.sub.memory_bias, 0, 8000)
           /\ InRange(l.sub.rumination_strength, 0, 10000)
      [] l.name = "HyperarousalLoop" ->
           /\ InRange(l.sub.arousal_level, 0, 10000)
           /\ InRange(l.sub.sleep_quality, 0, 10000)
           /\ InRange(l.sub.threat_vigilance, 10000, 25000)
           /\ InRange(l.sub.startle_response, 10000, 30000)
      [] l.name = "ControlFailureLoop" ->
           /\ InRange(l.sub.inhibition_strength, 3000, 10000)
           /\ InRange(l.sub.cognitive_flexibility, 4000, 10000)
           /\ InRange(l.sub.working_memory_capacity, 5000, 10000)
           /\ InRange(l.sub.executive_function, 4000, 10000)
           /\ InRange(l.sub.negative_thought_frequency, 0, 10000)
      [] l.name = "EnergyCollapseLoop" ->
           /\ InRange(l.sub.current_energy, 0, 100 * Scale)
           /\ InRange(l.sub.energy_depletion_rate, 1000, 5000)
           /\ InRange(l.sub.recovery_rate, 100, 500)
           /\ InRange(l.sub.sleep_quality, 3000, 10000)
           /\ InRange(l.sub.circadian_rhythm, 4000, 10000)

\* ------------------------------------------------------------------ claims

\* C1: after any finite sequence of trigger, update and domain-method calls
\* with in-range arguments, loop_strength lies in [min_strength, max_strength].
C1_StrengthBounded == last.op # "__init__" => StrengthInBounds(loop)

\* C2: after any finite sequence of domain-method and update calls with
\* in-range inputs every domain sub-state variable is in its documented range.
C2_SubStateBounded == SubStateInRange(loop)

\* C3: after every update_state call (any external_input, any registered
\* feedback callables, any noise draws) and after every apply_feedback call,
\* all nine StateVector fields lie in their valid ranges.
StateVectorInRange(state) ==
    /\ InRange(state.attention, 0, Scale)
    /\ InRange(state.arousal, 0, Scale)
    /\ InRange(state.pfc_inhibition, 0, Scale)
    /\ InRange(state.dopamine_level, 0, Scale)
    /\ InRange(state.discount_rate, 0, Scale)
    /\ InRange(state.thalamus_gate, 0, Scale)
    /\ InRange(state.bg_drive, 0, Scale)
    /\ InRange(state.noise_level, 0, Scale)
    /\ InRange(state.energy, 0, 100 * Scale)

C3_StateVectorBounded ==
    last.op \in {"update_state", "apply_feedback"} => StateVectorInRange(cld.state)

\* C4: after any number of trigger calls on a loop and of update_state calls
\* on a ClosedLoopDynamics, each stored history holds at most 1000 entries.
C4_HistoryBounded ==
    Len(loop.history) <= 1000 /\ Len(cld.state_history) <= 1000

\* more than 1000 trigger calls and more than 1000 update_state calls have
\* been made and both histories are full
C4_Witness ==
    /\ steps >= 2 * 1001
    /\ Len(loop.history) = 1000
    /\ Len(cld.state_history) = 1000

\* C5: from a state with loop_strength > loop_threshold, under repeated
\* update(dt) calls with no trigger, the loop's strength stays strictly above
\* that of an identical loop whose _reinforce_loop is a no-op.
C5_SelfReinforcement ==
    (twin # << >> /\ last.op = "update" /\ last.args[1] > 0)
        => loop.state.loop_strength > twin[1].state.loop_strength

\* C6: with 0 < loop_decay <= 1 and dt > 0, an update with no trigger and no
\* external_factors never raises loop_strength, never leaves it below
\* min_strength, and keeps it at min_strength once it is there.
PureDecayStep(before, after) ==
    /\ after.state.loop_strength <= before.state.loop_strength
    /\ after.state.loop_strength >= before.parameters.min_strength
    /\ (before.state.loop_strength = before.parameters.min_strength
          => after.state.loop_strength = before.parameters.min_strength)

IsPureUpdate(call) ==
    call.op = "update" /\ call.args[1] > 0 /\ call.args[2] = << >>

C6_PureDecay == [][IsPureUpdate(last') => PureDecayStep(loop, loop')]_vars

\* C7: in one pre-state, a larger trigger intensity never yields a smaller
\* loop_strength after trigger (base increase and reinforcement included).
MonoIntensities == {i * 1000 : i \in 0..10}

StrengthAfterTrigger(l) ==
    [i \in MonoIntensities |-> Trigger(l, i).state.loop_strength]

C7_TriggerMonotone ==
    \A after \in {StrengthAfterTrigger(loop)} :
        \A i1, i2 \in MonoIntensities : i1 <= i2 => after[i1] <= after[i2]

\* a pre-state in which the larger intensity activates the loop and is
\* reinforced while the smaller one stays below the threshold
C7_Witness ==
    \E i1, i2 \in MonoIntensities :
        /\ last.op = "trigger"
        /\ i1 < i2
        /\ Trigger(loop, i1).state.activation_count = loop.state.activation_count
        /\ Trigger(loop, i2).state.activation_count > loop.state.activation_count
        /\ Trigger(loop, i2).state.loop_strength
             > loop.state.loop_strength + Mul(i2, loop.parameters.loop_gain)

\* C8: two runs that build ReproducibleRNG with the same seed, obtain their
\* streams by the same names and make the same calls have identical draws,
\* identical loop and state-vector results at every step and identical scores.
Observed(run) ==
    [drawn |-> run.drawn, loop |-> run.loop, cld |-> run.cld,
     score |-> GetControlScore(run.loop)]

C8_Reproducible ==
    (runs[1].seed = runs[2].seed) => [](Observed(runs[1]) = Observed(runs[2]))

\* the two runs were handed different entropy, and loop calls and an
\* update_state call have drawn from the named streams
C8_Witness ==
    /\ entropy[1] # entropy[2]
    /\ Observed(runs[1]) = Observed(runs[2])
    /\ last.op = "update_state"
    /\ Len(runs[1].drawn) > 4
    /\ runs[1].loop.history # << >>

\* C9: the stream get_rng(name) delivers depends only on seed and name: its
\* subseed is the one a fresh ReproducibleRNG(seed) gives name when name is
\* the first thing requested.
FirstRequest(seed, name, e) ==
    DictGet(GetRng(NewReproducibleRNG(<<seed>>, e), name, e).run.subseeds, name)

C9_StreamOfSeedAndName ==
    \A i \in 1..Len(runs[1].sub_rngs) :
        LET name == runs[1].sub_rngs[i].key
        IN DictGet(runs[1].subseeds, name) = FirstRequest(runs[1].seed, name, entropy[1])

\* C10: when trigger() returns, the strength-projected sub-state fields equal
\* the projection of the loop_strength the loop then holds.
C10_ProjectionAfterTrigger ==
    last.op = "trigger" => loop.sub = Projection(loop, loop.state.loop_strength)

\* C11: after every update() call on each of the four concrete loops (for
\* EnergyCollapseLoop also through update_energy) the strength-projected
\* sub-state fields equal the projection of the post-update loop_strength.
C11_ProjectionAfterUpdate ==
    last.op \in {"update", "update_energy"}
        => loop.sub = Projection(loop, loop.state.loop_strength)

\* C12: last_activation_time is advanced only by update: trigger leaves it
\* unchanged and update(dt) adds dt, so that it is the sum of the dt of all
\* update calls since creation.
C12_ElapsedTime ==
    [][/\ last'.op = "trigger"
            => loop'.state.last_activation_time = loop.state.last_activation_time
       /\ last'.op = "update"
            => loop'.state.last_activation_time
                 = loop.state.last_activation_time + last'.args[1]]_vars

\* C12 as the code has it: last_activation_time is the time since the last
\* activating trigger (since creation when there was none): update(dt) adds dt,
\* a trigger that finds the loop active sets it to 0, any other trigger leaves
\* it unchanged.
C12_TimeSinceActivation ==
    [][/\ last'.op = "trigger"
            => loop'.state.last_activation_time
                 = (IF loop'.history[Len(loop'.history)].is_active
                    THEN 0 ELSE loop.state.last_activation_time)
       /\ last'.op = "update"
            => loop'.state.last_activation_time
                 = loop.state.last_activation_time + last'.args[1]]_vars

\* an activating trigger, made after updates had advanced the clock, has set
\* last_activation_time back to 0
C12_Witness ==
    /\ last.op = "trigger"
    /\ loop.history[Len(loop.history)].is_active
    /\ loop.state.cumulative_effect > 0
    /\ loop.state.last_activation_time = 0

\* C13: a trigger increments activation_count by exactly 1 iff loop_strength
\* after the base increase (before reinforcement) is >= loop_threshold, and
\* leaves it unchanged otherwise; the is_active flag of the trigger agrees with
\* that test; update leaves activation_count unchanged.
BaseIncrease(l, intensity) ==
    Min(l.parameters.max_strength,
        l.state.loop_strength + Mul(intensity, l.parameters.loop_gain))

C13_ActivationCount ==
    [][/\ last'.op = "trigger"
            => LET active == BaseIncrease(loop, last'.args[1]) >= loop.parameters.loop_threshold
               IN /\ loop'.state.activation_count
                       = loop.state.activation_count + (IF active THEN 1 ELSE 0)
                  /\ loop'.history[Len(loop'.history)].is_active = active
       /\ last'.op = "update"
            => loop'.state.activation_count = loop.state.activation_count]_vars

\* a trigger on an already active loop has counted a second activation and
\* was reinforced beyond the base increase
C13_Witness ==
    /\ last.op = "trigger"
    /\ loop.state.activation_count = 2
    /\ LET h == loop.history[Len(loop.history)]
       IN h.is_active /\ h.new_strength > h.prev_strength
                                            + Mul(h.trigger_intensity, loop.parameters.loop_gain)

\* ------------------------------------------------- reset and the read-outs
\* Mutant of Reset: the history is kept.
ResetKeepsHistory(l) == [l EXCEPT !.state = LoopState]

\* BaseLoop.reset: a new LoopState and an empty history; nothing else is
\* assigned
Reset(l) == [l EXCEPT !.state = LoopState, !.history = << >>]

IsActive(l) == l.state.loop_strength >= l.parameters.loop_threshold

RECURSIVE SumOf(_)
SumOf(xs) == IF xs = << >> THEN 0 ELSE Head(xs) + SumOf(Tail(xs))

RECURSIVE SqrtBetween(_, _, _)
SqrtBetween(n, lo, hi) ==
    IF lo >= hi THEN lo
    ELSE LET mid == (lo + hi + 1) \div 2
         IN IF mid * mid <= n THEN SqrtBetween(n, mid, hi) ELSE SqrtBetween(n, lo, mid - 1)

Sqrt(n) == SqrtBetween(n, 0, 4 * Scale)

\* BaseLoop.get_statistics: five entries for an empty history, nine otherwise
GetStatistics(l) ==
    LET basic == [loop_name |-> l.name,
                  current_strength |-> l.state.loop_strength,
                  activation_count |-> l.state.activation_count,
                  is_active |-> IsActive(l),
                  cumulative_effect |-> l.state.cumulative_effect]
        n == Len(l.history)
        strengths == [i \in 1..n |-> l.history[i].new_strength]
        mean == SumOf(strengths) \div n
        squares == [i \in 1..n |-> (strengths[i] - mean) * (strengths[i] - mean)]
    IN IF n = 0
       THEN basic
       ELSE [loop_name |-> basic.loop_name,
             current_strength |-> basic.current_strength,
             activation_count |-> basic.activation_count,
             is_active |-> basic.is_active,
             cumulative_effect |-> basic.cumulative_effect,
             mean_strength |-> mean,
             max_strength |-> CHOOSE x \in {strengths[i] : i \in 1..n} :
                                  \A i \in 1..n : strengths[i] <= x,
             min_strength |-> CHOOSE x \in {strengths[i] : i \in 1..n} :
                                  \A i \in 1..n : strengths[i] >= x,
             std_strength |-> Sqrt(SumOf(squares) \div n)]

\* the four get_*_score read-outs; x / 1.5 is x * 2 / 3, x / 0.7 is x * 10 / 7
GetBiasScore(l) ==
    Clip(Mul(((l.sub.negative_amplification - Scale) * 2) \div 3, 3000)
           + Mul(((Scale - l.sub.positive_dampening) * 10) \div 7, 3000)
           + Mul(l.sub.threat_sensitivity - Scale, 2000)
           + Mul(l.sub.rumination_strength, 1000)
           + Mul(l.sub.memory_bias, 1000), 0, Scale)

GetArousalScore(l) ==
    Clip(Mul(l.sub.arousal_level, 4000)
           + Mul(Scale - l.sub.sleep_quality, 3000)
           + Mul(((l.sub.threat_vigilance - Scale) * 2) \div 3, 2000)
           + Mul((l.sub.startle_response - Scale) \div 2, 1000), 0, Scale)

GetEnergyScore(l) ==
    Clip(Mul(l.sub.current_energy \div 100, 5000)
           + Mul(l.sub.recovery_rate * 20, 2000)
           + Mul(l.sub.sleep_quality, 2000)
           + Mul(l.sub.circadian_rhythm, 1000), 0, Scale)

Score(l) ==
    CASE l.name = "NegativeBiasLoop" -> GetBiasScore(l)
      [] l.name = "HyperarousalLoop" -> GetArousalScore(l)
      [] l.name = "ControlFailureLoop" -> GetControlScore(l)
      [] l.name = "EnergyCollapseLoop" -> GetEnergyScore(l)

\* ------------------------------------------ a loop that is reset and reused
\* A call is [op, args]; Apply runs it on a loop.
MaxBeforeReset == 2

MaxAfterReset == 2

LoopCalls(l) ==
    {[op |-> "trigger", args |-> <<10000>>], [op |-> "update", args |-> <<1, << >> >>]}
    \cup
    CASE l.name = "NegativeBiasLoop" ->
           {[op |-> "process_stimulus", args |-> <<-10000, 10000>>]}
      [] l.name = "HyperarousalLoop" ->
           {[op |-> "detect_threat", args |-> <<10000>>]}
      [] l.name = "ControlFailureLoop" ->
           {[op |-> "process_negative_thought", args |-> <<10000, r>>] : r \in {0, 9999}}
           \cup {[op |-> "attempt_cognitive_control", args |-> <<10000, r>>] : r \in {0, 9999}}
      [] l.name = "EnergyCollapseLoop" ->
           {[op |-> "consume_energy", args |-> <<10000, 10000>>],
            [op |-> "update_energy", args |-> <<10000, 10000, 1>>]}

Apply(l, call) ==
    CASE call.op = "trigger" -> Trigger(l, call.args[1])
      [] call.op = "update" -> Update(l, call.args[1], call.args[2])
      [] call.op = "process_stimulus" -> ProcessStimulus(l, call.args[1], call.args[2])
      [] call.op = "detect_threat" -> DetectThreat(l, call.args[1])
      [] call.op = "process_negative_thought" ->
           ProcessNegativeThought(l, call.args[1], call.args[2])
      [] call.op = "attempt_cognitive_control" ->
           AttemptCognitiveControl(l, call.args[1], call.args[2])
      [] call.op = "consume_energy" -> ConsumeEnergy(l, call.args[1], call.args[2])
      [] call.op = "update_energy" ->
           UpdateEnergy(l, call.args[1], call.args[2], call.args[3])

\* twin[1] is a second instance built by the same constructor call; it is
\* left alone until loop is reset and from then on receives the same calls.
InitReset ==
    /\ loop \in NewLoops
    /\ twin = <<loop>>
    /\ last = Called("__init__", << >>)
    /\ steps = 0
    /\ cld = NewClosedLoopDynamics
    /\ runs = << >>
    /\ entropy = << >>

WasReset == steps > MaxBeforeReset

CallBeforeReset ==
    /\ steps < MaxBeforeReset
    /\ \E call \in LoopCalls(loop) :
          /\ loop' = Apply(loop, call)
          /\ last' = Called(call.op, call.args)
    /\ steps' = steps + 1
    /\ UNCHANGED notLoop

DoReset ==
    /\ steps <= MaxBeforeReset
    /\ loop' = Reset(loop)
    /\ last' = Called("reset", << >>)
    /\ steps' = MaxBeforeReset + 1
    /\ UNCHANGED notLoop

CallAfterReset ==
    /\ WasReset
    /\ steps < MaxBeforeReset + 1 + MaxAfterReset
    /\ \E call \in LoopCalls(loop) :
          /\ loop' = Apply(loop, call)
          /\ twin' = <<Apply(twin[1], call)>>
          /\ last' = Called(call.op, call.args)
    /\ steps' = steps + 1
    /\ UNCHANGED <<cld, runs, entropy>>

NextReset ==
    \/ CallBeforeReset
    \/ DoReset
    \/ CallAfterReset

SpecReset == InitReset /\ [][NextReset]_vars

\* C14: reset() puts LoopState back to its defaults (loop_strength,
\* activation_count, last_activation_time and cumulative_effect all 0) and
\* empties the history, whatever the loop went through before; right after it
\* get_statistics() has only its five basic entries (no mean/max/min/std) and
\* its is_active is the threshold test on strength 0.
C14_ResetRestoresDefaults ==
    last.op = "reset"
        => /\ loop.state.loop_strength = 0
           /\ loop.state.activation_count = 0
           /\ loop.state.last_activation_time = 0
           /\ loop.state.cumulative_effect = 0
           /\ loop.history = << >>
           /\ DOMAIN GetStatistics(loop)
                = {"loop_name", "current_strength", "activation_count",
                   "is_active", "cumulative_effect"}
           /\ GetStatistics(loop).current_strength = 0
           /\ IsActive(loop) = (0 >= loop.parameters.loop_threshold)
           /\ GetStatistics(loop).is_active = IsActive(loop)

\* a reset of a NegativeBiasLoop that had processed a negative stimulus (the
\* only source of rumination), so that it had a strength and a history
C14_Witness ==
    /\ last.op = "reset"
    /\ loop.name = "NegativeBiasLoop"
    /\ loop.sub.rumination_strength > 0
    /\ loop.history = << >>

\* C15: a loop that ran some calls and was then reset() answers every later
\* call sequence like a freshly constructed instance with the same
\* constructor arguments given the same calls and draws: same LoopState
\* (strength included), same sub-state, same score.
C15_ResetLikeFresh ==
    WasReset
        => /\ loop.state = twin[1].state
           /\ loop.sub = twin[1].sub
           /\ Score(loop) = Score(twin[1])

\* ------------------------------- one stimulus, then a run of update(dt=0.1)
ScenarioUpdates == 20

ScenarioValences == {-10000, -8000, -5000, 5000}

ScenarioIntensities == {5000, 10000}

\* NegativeBiasLoop() with every argument at its default
InitScenario ==
    /\ loop = NewLoop("NegativeBiasLoop", DefaultParameters("NegativeBiasLoop"),
                      NewNegativeBiasLoop(0))
    /\ twin = << >>
    /\ last = Called("__init__", << >>)
    /\ steps = 0
    /\ cld = NewClosedLoopDynamics
    /\ runs = << >>
    /\ entropy = << >>

\* the first call; twin keeps what the caller measured right after it
ScenarioStimulus ==
    /\ steps = 0
    /\ \E v \in ScenarioValences, i \in ScenarioIntensities :
          /\ loop' = ProcessStimulus(loop, v, i)
          /\ last' = Called("process_stimulus", <<v, i>>)
    /\ twin' = <<[stimulus |-> last'.args, bias_score |-> GetBiasScore(loop')]>>
    /\ steps' = 1
    /\ UNCHANGED <<cld, runs, entropy>>

ScenarioUpdate ==
    /\ steps >= 1
    /\ steps <= ScenarioUpdates
    /\ loop' = Update(loop, 1, << >>)
    /\ last' = Called("update", <<1, << >> >>)
    /\ steps' = steps + 1
    /\ UNCHANGED notLoop

NextScenario ==
    \/ ScenarioStimulus
    \/ ScenarioUpdate

SpecScenario == InitScenario /\ [][NextScenario]_vars

\* C16: on NegativeBiasLoop() with default parameters, after
\* process_stimulus(-0.8, 1.0) and then twenty update(dt=0.1) calls,
\* get_bias_score() is strictly greater than it was right after the
\* process_stimulus call.
C16_ScenarioBiasGrows ==
    (steps = 21 /\ twin[1].stimulus = <<-8000, 10000>>)
        => GetBiasScore(loop) > twin[1].bias_score

\* --------------------------------------- EnergyCollapseLoop under load only
MaxEnergySteps == 2

MaxTestSteps == 10

EnergyLoads == {<<0, 0>>, <<10000, 10000>>}

EnergyDts == {1, 2}

InitEnergy ==
    /\ loop \in {l \in NewLoops : l.name = "EnergyCollapseLoop"}
    /\ last = Called("__init__", << >>)
    /\ steps = 0
    /\ cld = NewClosedLoopDynamics
    /\ twin = << >>
    /\ runs = << >>
    /\ entropy = << >>

EnergyConsume ==
    /\ steps < MaxEnergySteps
    /\ \E a \in EnergyLoads :
          /\ loop' = ConsumeEnergy(loop, a[1], a[2])
          /\ last' = Called("consume_energy", a)
    /\ steps' = steps + 1
    /\ UNCHANGED notLoop

EnergyUpdate ==
    /\ steps < MaxEnergySteps
    /\ \E a \in EnergyLoads, dt \in EnergyDts :
          /\ loop' = UpdateEnergy(loop, a[1], a[2], dt)
          /\ last' = Called("update_energy", <<a[1], a[2], dt>>)
    /\ steps' = steps + 1
    /\ UNCHANGED notLoop

\* update_energy(cognitive_load=0.3, stress_level=0.2, dt=0.1), repeated
TestUpdateEnergy ==
    /\ steps < MaxTestSteps
    /\ loop' = UpdateEnergy(loop, 3000, 2000, 1)
    /\ last' = Called("update_energy", <<3000, 2000, 1>>)
    /\ steps' = steps + 1
    /\ UNCHANGED notLoop

NextEnergy ==
    \/ EnergyConsume
    \/ EnergyUpdate
    \/ TestUpdateEnergy

SpecEnergy == InitEnergy /\ [][NextEnergy]_vars

\* C17: for an EnergyCollapseLoop under any sequence of consume_energy and
\* update_energy calls with loads in [0,1] and dt >= 0 (ten times
\* update_energy(0.3, 0.2, 0.1) on EnergyCollapseLoop(80, 0.3) among them),
\* current_energy stays in [0,100], and an update_energy step whose
\* consumption is at least its effective recovery does not raise
\* current_energy.
C17_EnergyBoundedAndFalling ==
    /\ InRange(loop.sub.current_energy, 0, 100 * Scale)
    /\ [][/\ InRange(loop'.sub.current_energy, 0, 100 * Scale)
          /\ (/\ last'.op = "update_energy"
              /\ (Consumption(loop, last'.args[1], last'.args[2]) * last'.args[3]) \div 10
                     >= EffectiveRecovery(loop, last'.args[3]))
                => loop'.sub.current_energy <= loop.sub.current_energy]_vars

\* the tenth update_energy(0.3, 0.2, 0.1) in a row on
\* EnergyCollapseLoop(80, 0.3): 80 less ten net losses of 0.0275 - 0.0024
C17_Witness ==
    /\ last = Called("update_energy", <<3000, 2000, 1>>)
    /\ steps = 10
    /\ loop.sub.current_energy = 80 * Scale - 10 * 251
    /\ loop.sub.energy_depletion_rate = 2200
    /\ loop.state.last_activation_time = 10

\* C18: each update_state call runs, in this order, the basic dynamics, every
\* registered feedback callable exactly once in registration order (each one
\* fed the state the previous one returned), the noise injection and the
\* clamping, then appends exactly one snapshot of the clamped state to the
\* history; time_elapsed grows by dt.
RECURSIVE AfterCallables(_, _, _, _)
AfterCallables(fs, k, state, dt) ==
    IF k = 0 THEN state ELSE Feedback(fs[k], AfterCallables(fs, k - 1, state, dt), dt)

C18_UpdateStateOrder ==
    [][last'.op = "update_state"
         => LET d == IF last'.args[2] = << >> THEN cld.dt ELSE last'.args[2][1]
                basic == UpdateBasicDynamics(cld.state, last'.args[1], d)
                called == AfterCallables(cld.feedback_loops, Len(cld.feedback_loops), basic, d)
                clamped == ClampState(AddNoise(called, d, last'.args[3]))
            IN /\ cld'.time_elapsed = cld.time_elapsed + d
               /\ cld'.state = clamped
               /\ cld'.state_history = Append(cld.state_history, clamped)
               /\ cld'.feedback_loops = cld.feedback_loops]_vars

\* C19: apply_feedback(a, i, h) sets thalamus_gate, pfc_inhibition and arousal
\* to clip(thalamus_gate + (a-0.5)*0.2, 0, 1), clip(pfc_inhibition -
\* (i-0.5)*0.2, 0, 1) and clip(arousal + (h-0.5)*0.3, 0, 1) and changes nothing
\* else: the other six fields, time_elapsed, state_history and the registered
\* callables stay; with a = i = h = 0.5 the call changes nothing at all.
OtherFields ==
    {"attention", "dopamine_level", "discount_rate", "bg_drive", "energy", "noise_level"}

C19_ApplyFeedbackFrame ==
    [][last'.op = "apply_feedback"
         => LET a == last'.args[1]
                i == last'.args[2]
                h == last'.args[3]
            IN /\ cld'.state.thalamus_gate
                    = Clip(cld.state.thalamus_gate + ((a - 5000) * 2) \div 10, 0, Scale)
               /\ cld'.state.pfc_inhibition
                    = Clip(cld.state.pfc_inhibition - ((i - 5000) * 2) \div 10, 0, Scale)
               /\ cld'.state.arousal
                    = Clip(cld.state.arousal + ((h - 5000) * 3) \div 10, 0, Scale)
               /\ \A f \in OtherFields : cld'.state[f] = cld.state[f]
               /\ cld'.time_elapsed = cld.time_elapsed
               /\ cld'.state_history = cld.state_history
               /\ cld'.feedback_loops = cld.feedback_loops
               /\ (a = 5000 /\ i = 5000 /\ h = 5000) => cld' = cld]_vars

\* ------------------------------------ trigger and update with any arguments
MaxWildSteps == 2

WildIntensities == {-10000, 5000, 300000}

WildDts == {-5, 1, 30}

WildExternalFactors == {<< >>, <<-20000>>, <<30000>>}

\* the four loops built with default parameters
InitWild ==
    /\ loop \in {l \in NewLoops : l.parameters = DefaultParameters(l.name)}
    /\ last = Called("__init__", << >>)
    /\ steps = 0
    /\ cld = NewClosedLoopDynamics
    /\ twin = << >>
    /\ runs = << >>
    /\ entropy = << >>

WildTrigger ==
    /\ steps < MaxWildSteps
    /\ \E i \in WildIntensities :
          /\ loop' = Trigger(loop, i)
          /\ last' = Called("trigger", <<i>>)
    /\ steps' = steps + 1
    /\ UNCHANGED notLoop

WildUpdate ==
    /\ steps < MaxWildSteps
    /\ \E dt \in WildDts, f \in WildExternalFactors :
          /\ loop' = Update(loop, dt, f)
          /\ last' = Called("update", <<dt, f>>)
    /\ steps' = steps + 1
    /\ UNCHANGED notLoop

NextWild ==
    \/ WildTrigger
    \/ WildUpdate

SpecWild == InitWild /\ [][NextWild]_vars

\* C20: whatever finite intensity, dt and intervention_strength trigger and
\* update are given (negative ones and ones above 1 included), they raise no
\* error and leave loop_strength inside [min_strength, max_strength].
C20_OutOfRangeAbsorbed ==
    last.op \in {"trigger", "update"} => ~last.raised /\ StrengthInBounds(loop)

\* ------------------------------- two integrators that differ in their gate
\* The caller sets state.thalamus_gate (and dopamine_level) before the call,
\* as test_gate_effect does; cld and twin[1] then get the same update_state
\* call with noise draws of zero.
Gates == {1000, 5000, 9000}

Dopamines == {3000, 5000}

GateInputs ==
    { [task_importance |-> 8000,
       distractions |-> << [intensity |-> 7000, relevance |-> 8000] >>],
      [task_importance |-> 2000,
       distractions |-> << [intensity |-> 10000, relevance |-> 10000] >>],
      [task_importance |-> 10000,
       distractions |-> << [intensity |-> 0, relevance |-> 5000],
                           [intensity |-> 3000, relevance |-> 5000] >>],
      [task_importance |-> 0,
       distractions |-> << [intensity |-> 5000, relevance |-> 5000] >>] }

GateDts == {<< >>, <<0>>, <<5>>}

WithGate(c, gate, dopamine) ==
    [c EXCEPT !.state.thalamus_gate = gate, !.state.dopamine_level = dopamine]

InitGate ==
    /\ \E g1 \in Gates, g2 \in Gates, d \in Dopamines :
          /\ cld = WithGate(NewClosedLoopDynamics, g1, d)
          /\ twin = <<WithGate(NewClosedLoopDynamics, g2, d)>>
    /\ loop = NewLoop("NegativeBiasLoop", DefaultParameters("NegativeBiasLoop"),
                      NewNegativeBiasLoop(0))
    /\ last = Called("__init__", << >>)
    /\ steps = 0
    /\ runs = << >>
    /\ entropy = << >>

GateUpdateBoth ==
    /\ steps = 0
    /\ \E input \in GateInputs, dt \in GateDts :
          /\ cld' = UpdateState(cld, input, dt, <<0, 0, 0, 0>>, FALSE)
          /\ twin' = <<UpdateState(twin[1], input, dt, <<0, 0, 0, 0>>, FALSE)>>
          /\ last' = Called("update_state", <<input, dt, <<0, 0, 0, 0>> >>)
    /\ steps' = 1
    /\ UNCHANGED <<loop, runs, entropy>>

NextGate == GateUpdateBoth

SpecGate == InitGate /\ [][NextGate]_vars

\* C21: with the same external_input (task_importance in [0,1], at least one
\* distraction of positive intensity and relevance, none negative), the same
\* dt and dopamine_level and zero noise, the attention update_state produces
\* does not grow with the thalamus_gate held before the call, and it is
\* strictly higher for gate 0.1 than for gate 0.9 unless it is clamped at 0.
C21_GateEffect ==
    [][last'.op = "update_state"
         => /\ cld.state.thalamus_gate <= twin[1].state.thalamus_gate
                 => cld'.state.attention >= twin'[1].state.attention
            /\ (/\ cld.state.thalamus_gate = 1000
                /\ twin[1].state.thalamus_gate = 9000
                /\ cld'.state.attention > 0)
                 => cld'.state.attention > twin'[1].state.attention]_vars

\* test_gate_effect's input: attention 0.7816 behind gate 0.1 and 0.6472
\* behind gate 0.9
C21_Witness ==
    /\ last.op = "update_state"
    /\ last.args[1].task_importance = 8000
    /\ last.args[2] = << >>
    /\ cld.state.dopamine_level = 5000
    /\ cld.state.attention = 7816
    /\ twin[1].state.attention = 6472

OwnFactors(name) ==
    CASE name = "NegativeBiasLoop" -> {0, 2000, 1500, 3500}
      [] name = "HyperarousalLoop" -> {0, 2500, 2000, 4500}
      [] name = "ControlFailureLoop" -> {0, 2000, 1500, 3500}
      [] name = "EnergyCollapseLoop" -> {0, 3000, 2000, 5000}

ProcessStimulusResult(l, stimulus_valence, stimulus_intensity) ==
    LET after == ProcessStimulus(l, stimulus_valence, stimulus_intensity)
    IN IF stimulus_valence < 0
       THEN [perceived_valence |->
                 Clip(-Mul(-stimulus_valence, after.sub.negative_amplification), -Scale, Scale),
             perceived_intensity |-> Mul(stimulus_intensity, after.sub.negative_amplification),
             bias_applied |-> TRUE, rumination_triggered |-> TRUE, loop_triggered |-> TRUE]
       ELSE IF stimulus_valence > 0
       THEN [perceived_valence |->
                 Clip(Mul(stimulus_valence, l.sub.positive_dampening), -Scale, Scale),
             perceived_intensity |-> Mul(stimulus_intensity, l.sub.positive_dampening),
             bias_applied |-> TRUE, rumination_triggered |-> FALSE, loop_triggered |-> FALSE]
       ELSE IF l.sub.rumination_strength > 3000
       THEN [perceived_valence |-> -Mul(1000, l.sub.rumination_strength),
             perceived_intensity |-> stimulus_intensity,
             bias_applied |-> TRUE, rumination_triggered |-> FALSE, loop_triggered |-> FALSE]
       ELSE [perceived_valence |-> 0,
             perceived_intensity |-> stimulus_intensity,
             bias_applied |-> FALSE, rumination_triggered |-> FALSE, loop_triggered |-> FALSE]

MaxStimulusSteps == 5

StimulusValences == {-10000, 0, 8000}

StimulusIntensities == {5000, 10000}

\* twin holds the value the last call returned
InitStimulus ==
    /\ loop \in {l \in NewLoops : l.name = "NegativeBiasLoop"}
    /\ twin = << >>
    /\ last = Called("__init__", << >>)
    /\ steps = 0
    /\ cld = NewClosedLoopDynamics
    /\ runs = << >>
    /\ entropy = << >>

StimulusCall ==
    /\ steps < MaxStimulusSteps
    /\ \E v \in StimulusValences, i \in StimulusIntensities :
          /\ loop' = ProcessStimulus(loop, v, i)
          /\ twin' = <<ProcessStimulusResult(loop, v, i)>>
          /\ last' = Called("process_stimulus", <<v, i>>)
    /\ steps' = steps + 1
    /\ UNCHANGED <<cld, runs, entropy>>

NextStimulus == StimulusCall

SpecStimulus == InitStimulus /\ [][NextStimulus]_vars

\* C23: process_stimulus with valence > 0 does not trigger the loop:
\* LoopState, history and every sub-state field but rumination_strength stay,
\* and rumination_strength is multiplied by 0.95.  With valence = 0 nothing
\* changes, and the returned perceived_valence is -0.1 * rumination_strength
\* when rumination_strength > 0.3 and 0 otherwise.
C23_PositiveAndNeutralStimulus ==
    [][last'.op = "process_stimulus"
         => /\ last'.args[1] > 0
                 => /\ loop'.state = loop.state
                    /\ loop'.history = loop.history
                    /\ loop'.parameters = loop.parameters
                    /\ \A f \in DOMAIN loop.sub \ {"rumination_strength"} :
                          loop'.sub[f] = loop.sub[f]
                    /\ loop'.sub.rumination_strength
                         = (loop.sub.rumination_strength * 95) \div 100
                    /\ ~twin'[1].loop_triggered
            /\ last'.args[1] = 0
                 => /\ loop' = loop
                    /\ twin'[1].perceived_valence
                         = (IF loop.sub.rumination_strength > 3000
                            THEN -(loop.sub.rumination_strength \div 10)
                            ELSE 0)]_vars

\* a neutral stimulus met by rumination above 0.3 and read as negative
C23_Witness ==
    /\ last.op = "process_stimulus"
    /\ last.args[1] = 0
    /\ loop.sub.rumination_strength > 3000
    /\ twin[1].perceived_valence < 0

\* ------------------------- process_negative_thought on a seeded generator
MaxThoughtSteps == 3

ThoughtImpairments == {0, 3000, 8000}

ThoughtIntensities == {5000, 10000}

ThoughtSeeds == {<<n>> : n \in 1..8}

\* runs[1] is one run whose ControlFailureLoop draws from the stream
\* "thought" of a ReproducibleRNG
InitThought ==
    /\ \E seed \in ThoughtSeeds, p \in ParameterChoices("ControlFailureLoop"),
          a \in ThoughtImpairments :
          runs = <<[NewRun(seed, 5, "thought", "brain") EXCEPT
                      !.loop = NewLoop("ControlFailureLoop", p, NewControlFailureLoop(a))]>>
    /\ entropy = <<5>>
    /\ loop = NewLoop("NegativeBiasLoop", DefaultParameters("NegativeBiasLoop"),
                      NewNegativeBiasLoop(0))
    /\ last = Called("__init__", << >>)
    /\ steps = 0
    /\ cld = NewClosedLoopDynamics
    /\ twin = << >>

ThoughtCall ==
    /\ steps < MaxThoughtSteps
    /\ \E t \in ThoughtIntensities :
          /\ runs' = <<RunProcessNegativeThought(runs[1], t)>>
          /\ last' = Called("process_negative_thought", <<t>>)
    /\ steps' = steps + 1
    /\ UNCHANGED notRuns

NextThought == ThoughtCall

SpecThought == InitThought /\ [][NextThought]_vars

\* C24: process_negative_thought(t) draws no random number and fails when
\* inhibition_strength <= 0.5; when inhibition_strength > 0.5 it takes exactly
\* one draw r and succeeds iff r < inhibition_strength.  On success
\* loop_strength is multiplied by 0.9 and nothing else changes; on failure
\* trigger(t) runs exactly once and negative_thought_frequency becomes
\* min(1, old + 0.1 * t).
C24_ProcessNegativeThought ==
    [][last'.op = "process_negative_thought"
         => LET before == runs[1]
                after == runs'[1]
                t == last'.args[1]
                gated == before.loop.sub.inhibition_strength > 5000
                r == after.drawn[Len(after.drawn)]
                success == gated /\ r < before.loop.sub.inhibition_strength
            IN /\ IF gated
                  THEN /\ Len(after.drawn) = Len(before.drawn) + 1
                       /\ after.generators[before.loop_rng]
                            = LcgNext(before.generators[before.loop_rng])
                       /\ \A g \in DOMAIN before.generators \ {before.loop_rng} :
                             after.generators[g] = before.generators[g]
                  ELSE /\ after.drawn = before.drawn
                       /\ after.generators = before.generators
               /\ IF success
                  THEN after.loop =
                         [before.loop EXCEPT
                            !.state.loop_strength = (@ * 9) \div 10]
                  ELSE /\ Len(after.loop.history) = Len(before.loop.history) + 1
                       /\ after.loop.history[Len(after.loop.history)].trigger_intensity = t
                       /\ after.loop.history[Len(after.loop.history)].prev_strength
                            = before.loop.state.loop_strength
                       /\ after.loop.sub.negative_thought_frequency
                            = Min(Scale, before.loop.sub.negative_thought_frequency + t \div 10)]_vars

\* a call that drew, failed and triggered, followed by a call that drew and
\* succeeded: two draws, one history record, and a loop_strength that is 0.9
\* times the strength the trigger left
C24_Witness ==
    /\ last.op = "process_negative_thought"
    /\ Len(runs[1].drawn) = 2
    /\ Len(runs[1].loop.history) = 1
    /\ runs[1].drawn[1] >= 5000
    /\ runs[1].drawn[2] < runs[1].loop.sub.inhibition_strength
    /\ runs[1].loop.state.loop_strength > 0
    /\ runs[1].loop.state.loop_strength = (runs[1].loop.history[1].new_strength * 9) \div 10

\* C25: consume_energy and update_energy both end with a threshold check:
\* when current_energy / 100 after the energy change is below 0.5,
\* BaseLoop.trigger runs exactly once in the call (one history record more,
\* activation_count one more iff the record is active); when the ratio is
\* >= 0.5 the loop is not triggered and loop_strength is not raised.
TriggeredOnce(before, after) ==
    /\ Len(after.history) = Len(before.history) + 1
    /\ after.state.activation_count
         = before.state.activation_count
             + (IF after.history[Len(after.history)].is_active THEN 1 ELSE 0)

C25_EnergyThresholdTriggers ==
    [][last'.op \in {"consume_energy", "update_energy"}
         => IF loop'.sub.current_energy \div 100 < 5000
            THEN TriggeredOnce(loop, loop')
            ELSE /\ loop'.history = loop.history
                 /\ loop'.state.activation_count = loop.state.activation_count
                 /\ loop'.state.loop_strength <= loop.state.loop_strength]_vars

\* ------------------------- update_state from chosen energy and arousal
\* The pre-state's energy, arousal and dopamine_level are set by the caller
\* (the state object is handed out by get_state and written by the tests);
\* no callable is registered and the noise draws are zero, so the
\* thalamus_gate after update_state is the one the basic dynamics computed.
Energies == {0, 1, 50 * Scale, 100 * Scale}

Arousals == {0, 5000, 10000}

InitBasic ==
    /\ \E e \in Energies, a \in Arousals, d \in Dopamines :
          cld = [NewClosedLoopDynamics EXCEPT
                    !.state.energy = e, !.state.arousal = a, !.state.dopamine_level = d]
    /\ twin = << >>
    /\ loop = NewLoop("NegativeBiasLoop", DefaultParameters("NegativeBiasLoop"),
                      NewNegativeBiasLoop(0))
    /\ last = Called("__init__", << >>)
    /\ steps = 0
    /\ runs = << >>
    /\ entropy = << >>

BasicUpdate ==
    /\ steps = 0
    /\ \E input \in GateInputs, dt \in GateDts :
          /\ cld' = UpdateState(cld, input, dt, <<0, 0, 0, 0>>, FALSE)
          /\ last' = Called("update_state", <<input, dt, <<0, 0, 0, 0>> >>)
    /\ steps' = 1
    /\ UNCHANGED notCld

NextBasic == BasicUpdate

SpecBasic == InitBasic /\ [][NextBasic]_vars

\* C26: after the basic dynamics of update_state, thalamus_gate is the
\* average of normalized energy and arousal, clip((energy/100 + arousal)/2,
\* 0, 1), for every pre-state with energy in [0,100] and arousal in [0,1],
\* energy = 0 included.
C26_GateIsAverage ==
    [][last'.op = "update_state"
         => cld'.state.thalamus_gate
              = Clip((cld.state.energy \div 100 + cld.state.arousal) \div 2, 0, Scale)]_vars

\* ------------------------------------------------ histories at capacity
\* ClosedLoopDynamics.reset
ResetDynamics(c) ==
    [c EXCEPT !.state = StateVector, !.time_elapsed = 0, !.state_history = << >>]

\* The driver's calls are made Prefill times each, so that both histories
\* are one short of their capacity; then trigger, update and reset on the
\* loop and update_state, apply_feedback and reset on the integrator follow
\* in any order.
Prefill == 999

MaxHistorySteps == 4

Filled == steps >= 2 * Prefill

HistoryInputs ==
    {[task_importance |-> 8000, distractions |-> << >>],
     [task_importance |-> 0, distractions |-> <<[intensity |-> 8000, relevance |-> 7000]>>]}

InitHistory ==
    /\ loop \in DefaultLoops
    /\ cld = NewClosedLoopDynamics
    /\ last = Called("__init__", << >>)
    /\ steps = 0
    /\ twin = << >>
    /\ runs = << >>
    /\ entropy = << >>

FillTrigger ==
    /\ ~Filled
    /\ steps % 2 = 0
    /\ loop' = Trigger(loop, 10000)
    /\ last' = Called("trigger", <<10000>>)
    /\ steps' = steps + 1
    /\ UNCHANGED notLoop

FillUpdateState ==
    /\ ~Filled
    /\ steps % 2 = 1
    /\ \E input \in {[task_importance |-> 8000, distractions |-> << >>]} :
          /\ cld' = UpdateState(cld, input, <<1>>, <<0, 0, 0, 0>>, FALSE)
          /\ last' = Called("update_state", <<input, <<1>>, <<0, 0, 0, 0>> >>)
    /\ steps' = steps + 1
    /\ UNCHANGED notCld

HistoryTrigger ==
    /\ Filled
    /\ steps < 2 * Prefill + MaxHistorySteps
    /\ \E intensity \in {5000, 10000} :
          /\ loop' = Trigger(loop, intensity)
          /\ last' = Called("trigger", <<intensity>>)
    /\ steps' = steps + 1
    /\ UNCHANGED notLoop

HistoryUpdate ==
    /\ Filled
    /\ steps < 2 * Prefill + MaxHistorySteps
    /\ loop' = Update(loop, 1, << >>)
    /\ last' = Called("update", <<1, << >> >>)
    /\ steps' = steps + 1
    /\ UNCHANGED notLoop

HistoryReset ==
    /\ Filled
    /\ steps < 2 * Prefill + MaxHistorySteps
    /\ loop' = Reset(loop)
    /\ last' = Called("reset", << >>)
    /\ steps' = steps + 1
    /\ UNCHANGED notLoop

HistoryUpdateState ==
    /\ Filled
    /\ steps < 2 * Prefill + MaxHistorySteps
    /\ \E input \in HistoryInputs :
          /\ cld' = UpdateState(cld, input, <<1>>, <<0, 0, 0, 0>>, FALSE)
          /\ last' = Called("update_state", <<input, <<1>>, <<0, 0, 0, 0>> >>)
    /\ steps' = steps + 1
    /\ UNCHANGED notCld

HistoryApplyFeedback ==
    /\ Filled
    /\ steps < 2 * Prefill + MaxHistorySteps
    /\ cld' = ApplyFeedback(cld, 10000, 0, 10000)
    /\ last' = Called("apply_feedback", <<10000, 0, 10000>>)
    /\ steps' = steps + 1
    /\ UNCHANGED notCld

HistoryResetDynamics ==
    /\ Filled
    /\ steps < 2 * Prefill + MaxHistorySteps
    /\ cld' = ResetDynamics(cld)
    /\ last' = Called("dynamics.reset", << >>)
    /\ steps' = steps + 1
    /\ UNCHANGED notCld

NextHistory ==
    \/ FillTrigger
    \/ FillUpdateState
    \/ HistoryTrigger
    \/ HistoryUpdate
    \/ HistoryReset
    \/ HistoryUpdateState
    \/ HistoryApplyFeedback
    \/ HistoryResetDynamics

SpecHistory == InitHistory /\ [][NextHistory]_vars

\* the history an append leaves: the entry at the end of the older entries,
\* less the single oldest when there were already 1000
AppendedFifo(before, after, entry) ==
    /\ Len(after) = Min(Len(before) + 1, 1000)
    /\ after[Len(after)] = entry
    /\ SubSeq(after, 1, Len(after) - 1)
         = IF Len(before) >= 1000 THEN Tail(before) ELSE before

\* C27: history eviction is FIFO only.  Every trigger on a loop and every
\* update_state on the integrator appends its record at the end of the
\* history and, when the history already held 1000 records, removes the single
\* oldest one; reset empties the history; no other operation removes or
\* reorders records.  The history is so at all times the most recent
\* min(n, 1000) records in the order of their appending.
C27_FifoEviction ==
    [][/\ last'.op = "trigger" =>
            /\ Len(loop'.history) = Min(Len(loop.history) + 1, 1000)
            /\ loop'.history[Len(loop'.history)].trigger_intensity = last'.args[1]
            /\ loop'.history[Len(loop'.history)].new_strength = loop'.state.loop_strength
            /\ AppendedFifo(loop.history, loop'.history, loop'.history[Len(loop'.history)])
            /\ cld'.state_history = cld.state_history
       /\ last'.op = "update_state" =>
            /\ AppendedFifo(cld.state_history, cld'.state_history, cld'.state)
            /\ loop'.history = loop.history
       /\ last'.op = "reset" =>
            loop'.history = << >> /\ cld'.state_history = cld.state_history
       /\ last'.op = "dynamics.reset" =>
            cld'.state_history = << >> /\ loop'.history = loop.history
       /\ last'.op \in {"update", "apply_feedback"} =>
            loop'.history = loop.history /\ cld'.state_history = cld.state_history]_vars

\* update_state has been called 1001 times: the history holds 1000 snapshots,
\* the newest at its end and the first one gone, while the loop's history,
\* emptied by reset, holds the one record appended since
C27_Witness ==
    /\ last.op = "update_state"
    /\ cld.time_elapsed = 1001
    /\ Len(cld.state_history) = 1000
    /\ cld.state_history[1000] = cld.state
    /\ cld.state_history[999] # cld.state
    /\ cld.state_history[1] # ClampState(BeforeNoise(NewClosedLoopDynamics,
                                  [task_importance |-> 8000, distractions |-> << >>],
                                  <<1>>).state)
    /\ Len(loop.history) = 1

\* ------------------------------------- side-channel bumps and projections
\* the loop with the fields that process_stimulus and detect_threat bump
\* set to zero
Scrubbed(l) ==
    CASE l.name = "NegativeBiasLoop" -> [l EXCEPT !.sub.memory_bias = 0]
      [] l.name = "HyperarousalLoop" ->
           [l EXCEPT !.sub.arousal_level = 0, !.sub.sleep_quality = 0,
                     !.sub.threat_vigilance = 0]
      [] OTHER -> l

\* the strength-projected fields equal the projection of strength
ProjectedFrom(l, strength) ==
    CASE l.name = "NegativeBiasLoop" ->
           l.sub.memory_bias = Mul(Clip(strength, 0, Scale), 8000)
      [] l.name = "HyperarousalLoop" ->
           /\ l.sub.arousal_level = Clip(strength, 0, Scale)
           /\ l.sub.sleep_quality = Scale - Mul(Clip(strength, 0, Scale), 8000)
           /\ l.sub.threat_vigilance = Scale + Mul(Clip(strength, 0, Scale), 15000)
      [] OTHER -> TRUE

\* C28: the increments process_stimulus adds to memory_bias and detect_threat
\* adds to arousal_level and threat_vigilance and takes from sleep_quality
\* do not outlive the next trigger or update.  After a trigger those fields
\* are the projection of the strength _reinforce_loop started from, after an
\* update the projection of the loop's strength, and the whole result of
\* trigger, update, detect_threat and process_stimulus of a negative
\* stimulus (the one that triggers) is the one the same call gives on the loop with those fields set to zero.
C28_BumpsOverwritten ==
    [][loop.name \in {"NegativeBiasLoop", "HyperarousalLoop"} =>
         /\ last'.op = "trigger" =>
              /\ loop' = Trigger(Scrubbed(loop), last'.args[1])
              /\ ProjectedFrom(loop', Min(loop.parameters.max_strength,
                                           loop.state.loop_strength
                                             + Mul(last'.args[1], loop.parameters.loop_gain)))
         /\ last'.op = "update" =>
              /\ loop' = Update(Scrubbed(loop), last'.args[1], last'.args[2])
              /\ ProjectedFrom(loop', loop'.state.loop_strength)
         /\ (last'.op = "process_stimulus" /\ last'.args[1] < 0) =>
              loop' = ProcessStimulus(Scrubbed(loop), last'.args[1], last'.args[2])
         /\ last'.op = "detect_threat" =>
              loop' = DetectThreat(Scrubbed(loop), last'.args[1])]_vars

\* detect_threat has just lowered sleep_quality below the 0.5 that
\* _reinforce_loop tests, while the projection of the loop's strength is
\* not below it, and further calls follow
C28_Witness ==
    /\ last.op = "detect_threat"
    /\ loop.name = "HyperarousalLoop"
    /\ steps < MaxSteps
    /\ loop.sub.sleep_quality < 5000
    /\ Scale - Mul(Clip(loop.state.loop_strength, 0, Scale), 8000) >= 5000
    /\ ~ProjectedFrom(loop, loop.state.loop_strength)

\* --------------------------------------- trigger, update and reset, counted
\* twin[1].triggers counts the trigger invocations since the loop was
\* created or last reset.
MaxCountSteps == 3

InitCount ==
    /\ loop \in NewLoops
    /\ twin = <<[triggers |-> 0]>>
    /\ last = Called("__init__", << >>)
    /\ steps = 0
    /\ cld = NewClosedLoopDynamics
    /\ runs = << >>
    /\ entropy = << >>

CountTrigger ==
    /\ steps < MaxCountSteps
    /\ \E i \in Intensities :
          /\ loop' = Trigger(loop, i)
          /\ last' = Called("trigger", <<i>>)
    /\ twin' = <<[triggers |-> twin[1].triggers + 1]>>
    /\ steps' = steps + 1
    /\ UNCHANGED <<cld, runs, entropy>>

CountUpdate ==
    /\ steps < MaxCountSteps
    /\ \E dt \in Dts, f \in ExternalFactors :
          /\ loop' = Update(loop, dt, f)
          /\ last' = Called("update", <<dt, f>>)
    /\ steps' = steps + 1
    /\ UNCHANGED notLoop

CountReset ==
    /\ steps < MaxCountSteps
    /\ loop' = Reset(loop)
    /\ last' = Called("reset", << >>)
    /\ twin' = <<[triggers |-> 0]>>
    /\ steps' = steps + 1
    /\ UNCHANGED <<cld, runs, entropy>>

NextCount ==
    \/ CountTrigger
    \/ CountUpdate
    \/ CountReset

SpecCount == InitCount /\ [][NextCount]_vars

\* the part of get_statistics computed from the history
HistoryStatistics(l) ==
    IF Len(l.history) = 0 THEN << >>
    ELSE LET s == GetStatistics(l)
         IN <<s.mean_strength, s.max_strength, s.min_strength, s.std_strength>>

\* C29: update never appends to the history and never changes
\* activation_count, so get_statistics' mean, max, min and std are the same
\* after it as before; the history length is at all times min(1000, number
\* of trigger invocations since creation or reset), and the record a trigger
\* appends holds the strength at the end of that trigger.
C29_UpdateLeavesHistory ==
    [][/\ Len(loop'.history) = Min(1000, twin'[1].triggers)
       /\ last'.op = "update" =>
            /\ loop'.history = loop.history
            /\ loop'.state.activation_count = loop.state.activation_count
            /\ HistoryStatistics(loop') = HistoryStatistics(loop)
       /\ last'.op = "trigger" =>
            loop'.history[Len(loop'.history)].new_strength = loop'.state.loop_strength]_vars

\* an update that changed the strength of a loop with two records of
\* different strengths in its history
C29_Witness ==
    /\ last.op = "update"
    /\ Len(loop.history) = 2
    /\ twin[1].triggers = 2
    /\ loop.history[1].new_strength # loop.history[2].new_strength
    /\ loop.state.loop_strength # loop.history[2].new_strength
    /\ GetStatistics(loop).std_strength > 0

\* ------------------------------- apply_feedback followed by update_state
\* cld receives apply_feedback with the caller's three scores; twin[1] is
\* an integrator in the same state that receives the same impulse and
\* hyperactivity scores with the neutral attention score 0.5, which leaves
\* its thalamus_gate as it was.  Both then receive the same update_state
\* calls.
MaxOverwriteUpdates == 2

InitOverwrite ==
    /\ \E e \in Energies, a \in Arousals :
          cld = [NewClosedLoopDynamics EXCEPT !.state.energy = e, !.state.arousal = a]
    /\ twin = <<cld>>
    /\ loop = NewLoop("NegativeBiasLoop", DefaultParameters("NegativeBiasLoop"),
                      NewNegativeBiasLoop(0))
    /\ last = Called("__init__", << >>)
    /\ steps = 0
    /\ runs = << >>
    /\ entropy = << >>

OverwriteFeedback ==
    /\ steps = 0
    /\ \E attention_score \in Scores, impulse_score \in Scores,
          hyperactivity_score \in Scores :
          /\ cld' = ApplyFeedback(cld, attention_score, impulse_score, hyperactivity_score)
          /\ twin' = <<ApplyFeedback(twin[1], 5000, impulse_score, hyperactivity_score)>>
          /\ last' = Called("apply_feedback",
                            <<attention_score, impulse_score, hyperactivity_score>>)
    /\ steps' = 1
    /\ UNCHANGED <<loop, runs, entropy>>

OverwriteUpdateState ==
    /\ steps >= 1
    /\ steps < 1 + MaxOverwriteUpdates
    /\ \E input \in GateInputs, dt \in GateDts :
          /\ cld' = UpdateState(cld, input, dt, <<0, 0, 0, 0>>, FALSE)
          /\ twin' = <<UpdateState(twin[1], input, dt, <<0, 0, 0, 0>>, FALSE)>>
          /\ last' = Called("update_state", <<input, dt, <<0, 0, 0, 0>> >>)
    /\ steps' = steps + 1
    /\ UNCHANGED <<loop, runs, entropy>>

NextOverwrite ==
    \/ OverwriteFeedback
    \/ OverwriteUpdateState

SpecOverwrite == InitOverwrite /\ [][NextOverwrite]_vars

\* a state vector with its attention blanked
ExceptAttention(state) == [state EXCEPT !.attention = 0]

\* C30: the thalamus_gate held after update_state does not depend on the
\* thalamus_gate held before it.  The gate adjustment of apply_feedback
\* reaches only the attention computed by the next update_state call: after
\* that call the integrator differs from the one that had no gate adjustment
\* in attention at most, and after the call that follows in nothing; the
\* adjusted pfc_inhibition and arousal carry over into update_state, which
\* (with zero noise) leaves arousal as adjusted and takes only the decay of
\* its own step from pfc_inhibition.
C30_GateOverwritten ==
    [][last'.op = "update_state" =>
         /\ cld'.state.thalamus_gate = twin'[1].state.thalamus_gate
         /\ cld'.state.thalamus_gate
              = UpdateState([cld EXCEPT !.state.thalamus_gate = Scale - @],
                            last'.args[1], last'.args[2], last'.args[3],
                            FALSE).state.thalamus_gate
         /\ ExceptAttention(cld'.state) = ExceptAttention(twin'[1].state)
         /\ steps' >= 3 => cld'.state = twin'[1].state
         /\ cld'.state.arousal = cld.state.arousal
         /\ cld'.state.pfc_inhibition
              = Max(0, cld.state.pfc_inhibition
                         - (100 * DtOrDefault(cld, last'.args[2])) \div 10)]_vars

\* apply_feedback raised the gate and lowered pfc_inhibition, the next
\* update_state computed a lower attention than without the gate
\* adjustment, and the update_state after that has brought the two
\* integrators to the same state, the lowered pfc_inhibition still below
\* the default
C30_Witness ==
    /\ last.op = "update_state"
    /\ steps = 3
    /\ Len(cld.state_history) = 2
    /\ cld.state_history[1].attention < twin[1].state_history[1].attention
    /\ cld.state_history[1].thalamus_gate = twin[1].state_history[1].thalamus_gate
    /\ cld.state = twin[1].state
    /\ cld.state.pfc_inhibition < 4000

====
